---- MODULE Spec2Model ----
(***************************************************************************)
(* A model of the gantt scheduler's host manager                           *)
(* (gantt/scheduler/host_manager.py) and of the host filters it drives.    *)
(*                                                                         *)
(* Python values are modelled as follows.  An optional value (one that may *)
(* be None) is a sequence of length 0 or 1: None == <<>>, Some(x) == <<x>>.*)
(* A dict is a function; its key set is its DOMAIN.  A dict key that is    *)
(* None in Python is the string "None".  Timestamps are natural numbers    *)
(* read from the clock `now`.                                              *)
(***************************************************************************)
EXTENDS Integers, Sequences, FiniteSets, TLC

VARIABLES
    now,             \* the wall clock read by timeutils.utcnow()
    hs,              \* HostState spec: the HostState under test
    hsPrev,          \* HostState spec: hs before the last operation
    hsLast,          \* HostState spec: the last operation and its argument
    hsSteps,         \* HostState spec: number of operations applied so far
    fh,              \* Filter spec: one get_filtered_hosts call in progress
    inventory,       \* the compute_nodes table read by db.compute_node_get_all
    service_states,  \* HostManager.service_states
    host_state_map,  \* HostManager.host_state_map
    wk,              \* per worker: position and locals of the request it serves
    gone,            \* history: pairs a finished refresh found absent and the
                     \* inventory has not listed since
    dbOps,           \* number of inventory changes so far
    beats,           \* number of heartbeats so far
    hb,              \* Heartbeat spec: the update_service_capabilities calls
                     \* received so far, oldest first
    cs,              \* Consume spec: the HostState before the first
                     \* consume_from_instance and the instances consumed since
    fc,              \* Host filter spec: one host_passes call, its arguments
                     \* and, once made, its outcome
    tc               \* Trusted filter spec: the attestation cache, the
                     \* attestation service and the calls made so far

hsVars == <<hs, hsPrev, hsLast, hsSteps>>
hmVars == <<inventory, service_states, host_state_map, wk, gone, dbOps, beats>>
vars == <<now, hs, hsPrev, hsLast, hsSteps, fh, inventory, service_states,
          host_state_map, wk, gone, dbOps, beats, hb, cs, fc, tc>>
auxVars == <<hb, cs, fc, tc>>

(***************************************************************************)
(* Bounds of the model.                                                    *)
(***************************************************************************)
MaxTime == 3
MaxHsSteps == 3
MaxDbOps == 1
MaxBeats == 1
MaxReports == 1
MaxHbCalls == 3
MaxConsumes == 3
MaxTcCalls == 3
MaxTcTicks == 3
attestation_auth_timeout == 2

(***************************************************************************)
(* Python helpers.                                                         *)
(***************************************************************************)
None == <<>>
Some(x) == <<x>>
IsSet(o) == o # <<>>
Val(o) == o[1]
NoneKey == "None"

EmptyDict == [k \in {} |-> 0]
DictSet(d, k, v) == [x \in (DOMAIN d) \cup {k} |-> IF x = k THEN v ELSE d[x]]
DictGet(d, k, default) == IF k \in DOMAIN d THEN d[k] ELSE default
DictIncr(d, k) == DictSet(d, k, DictGet(d, k, 0) + 1)

(***************************************************************************)
(* HostState (host_manager.py, class HostState).                           *)
(*                                                                         *)
(* A compute-node record of the inventory is a record                      *)
(*   [id, service, hypervisor_hostname, updated_at, memory_mb,             *)
(*    disk_available_least, free_disk_gb, local_gb_used, free_ram_mb,      *)
(*    local_gb, vcpus, vcpus_used, pci_stats, host_ip, hypervisor_type,    *)
(*    hypervisor_version, cpu_info, supported_instances, stats, metrics]   *)
(* where service, updated_at, disk_available_least, pci_stats,             *)
(* supported_instances and metrics are optional, stats is a sequence of    *)
(* [key, value] with key = <<prefix, rest>> (the string prefix ++ rest),   *)
(* hypervisor_hostname, host_ip, hypervisor_type, hypervisor_version and   *)
(* cpu_info are optional too (compute.get),                                 *)
(* and metrics is a sequence of [name, complete, value]: name is optional  *)
(* (None: the 'name' key is missing; Some(""): a falsy name), and complete *)
(* says whether 'value', 'timestamp' and 'source' are all present.         *)
(***************************************************************************)
\* A bug that loads the snapshots once and keeps them.
UpdateCapabilitiesMutKeepFirst(h, capabilities, service) ==
    IF h.service # <<>> THEN h
    ELSE [h EXCEPT !.capabilities = IF capabilities # <<>>
                                    THEN capabilities[1] ELSE <<>>,
                   !.service = IF service # <<>> THEN service[1] ELSE <<>>]

\* HostState.update_capabilities: None becomes an empty dict; the snapshot is
\* replaced as a whole.
update_capabilities(h, capabilities, service) ==
    [h EXCEPT !.capabilities = IF IsSet(capabilities) THEN Val(capabilities)
                               ELSE EmptyDict,
              !.service = IF IsSet(service) THEN Val(service) ELSE EmptyDict]

\* HostState.__init__
NewHostState(host, node, capabilities, service) ==
    update_capabilities(
        [host |-> host, nodename |-> node,
         capabilities |-> EmptyDict, service |-> EmptyDict,
         total_usable_disk_gb |-> 0, disk_mb_used |-> 0,
         free_ram_mb |-> 0, free_disk_mb |-> 0,
         vcpus_total |-> 0, vcpus_used |-> 0,
         vm_states |-> EmptyDict, task_states |-> EmptyDict,
         num_instances |-> 0,
         num_instances_by_project |-> EmptyDict,
         num_instances_by_os_type |-> EmptyDict,
         num_io_ops |-> 0,
         host_ip |-> None, hypervisor_type |-> None,
         hypervisor_version |-> None, hypervisor_hostname |-> None,
         cpu_info |-> None, supported_instances |-> None,
         limits |-> EmptyDict, metrics |-> EmptyDict,
         updated |-> None,
         \* Attributes that only update_from_compute_node creates; it is
         \* called right after every construction, with the guard open.
         total_usable_ram_mb |-> 0, pci_stats |-> None, stats |-> EmptyDict],
        capabilities, service)

\* HostState._statmap: dict((st['key'], st['value']) for st in stats); a later
\* entry with the same key wins.
RECURSIVE StatmapFrom(_, _)
StatmapFrom(d, stats) ==
    IF stats = <<>> THEN d
    ELSE StatmapFrom(DictSet(d, Head(stats).key, Head(stats).value), Tail(stats))

_statmap(stats) == StatmapFrom(EmptyDict, stats)

\* for key in [k for k in stats.keys() if k.startswith(prefix)]:
\*     target[key[len(prefix):]] = int(stats[key])
RECURSIVE MergeKeys(_, _, _)
MergeKeys(target, stats, keys) ==
    IF keys = {} THEN target
    ELSE LET k == CHOOSE x \in keys : TRUE
         IN  MergeKeys(DictSet(target, k[2], stats[k]), stats, keys \ {k})

MergePrefixed(target, stats, prefix) ==
    MergeKeys(target, stats, {k \in DOMAIN stats : k[1] = prefix})

\* A metric entry raises KeyError when one of its required keys is missing.
MetricMalformed(m) == ~IsSet(m.name) \/ ~m.complete

\* HostState._update_metrics_from_compute_node: the loop over the decoded
\* list, stopping at the first malformed entry (the KeyError propagates).
RECURSIVE MetricsFrom(_, _)
MetricsFrom(d, metrics) ==
    IF metrics = <<>> THEN d
    ELSE LET m == Head(metrics)
         IN  IF MetricMalformed(m) THEN d
             ELSE IF Val(m.name) # ""
                  THEN MetricsFrom(DictSet(d, Val(m.name), m.value), Tail(metrics))
                  ELSE MetricsFrom(d, Tail(metrics))

\* metrics = compute.get('metrics', []) or []
MetricsList(compute) == IF IsSet(compute.metrics) THEN Val(compute.metrics) ELSE <<>>

_update_metrics_from_compute_node(h, compute) ==
    [h EXCEPT !.metrics = MetricsFrom(h.metrics, MetricsList(compute))]

MetricsRaise(compute) ==
    \E i \in 1..Len(MetricsList(compute)) : MetricMalformed(MetricsList(compute)[i])

\* The freshness guard of update_from_compute_node (lines 180-182).
FreshnessGuardMutLess(h, compute) ==
    /\ IsSet(h.updated)
    /\ IsSet(compute.updated_at)
    /\ Val(h.updated) < Val(compute.updated_at)

\* A bug that also skips a record as old as the HostState.
FreshnessGuardMutNotNewer(h, compute) ==
    /\ IsSet(h.updated)
    /\ IsSet(compute.updated_at)
    /\ Val(h.updated) >= Val(compute.updated_at)

FreshnessGuard(h, compute) ==
    /\ IsSet(h.updated)
    /\ IsSet(compute.updated_at)
    /\ Val(h.updated) > Val(compute.updated_at)

\* The body of update_from_compute_node after the guard (lines 183-255).
ApplyComputeNode(h, compute) ==
    LET least == compute.disk_available_least
        free_disk_mb == (IF IsSet(least) THEN Val(least) ELSE compute.free_disk_gb)
                        * 1024
        stats == _statmap(compute.stats)
        h1 == [h EXCEPT
                 !.disk_mb_used = compute.local_gb_used * 1024,
                 !.free_ram_mb = compute.free_ram_mb,
                 !.total_usable_ram_mb = compute.memory_mb,
                 !.total_usable_disk_gb = compute.local_gb,
                 !.free_disk_mb = free_disk_mb,
                 !.vcpus_total = compute.vcpus,
                 !.vcpus_used = compute.vcpus_used,
                 !.updated = compute.updated_at,
                 !.pci_stats = compute.pci_stats,
                 !.host_ip = compute.host_ip,
                 !.hypervisor_type = compute.hypervisor_type,
                 !.hypervisor_version = compute.hypervisor_version,
                 !.hypervisor_hostname = compute.hypervisor_hostname,
                 !.cpu_info = compute.cpu_info,
                 !.supported_instances =
                     IF IsSet(compute.supported_instances)
                     THEN compute.supported_instances
                     ELSE h.supported_instances,
                 !.stats = stats,
                 !.num_instances = DictGet(stats, <<"num_instances", "">>, 0),
                 !.num_instances_by_project =
                     MergePrefixed(h.num_instances_by_project, stats, "num_proj_"),
                 !.vm_states = MergePrefixed(h.vm_states, stats, "num_vm_"),
                 !.task_states = MergePrefixed(h.task_states, stats, "num_task_"),
                 !.num_instances_by_os_type =
                     MergePrefixed(h.num_instances_by_os_type, stats, "num_os_type_"),
                 !.num_io_ops = DictGet(stats, <<"io_workload", "">>, 0)]
    IN  _update_metrics_from_compute_node(h1, compute)

\* A bug that takes a disk_available_least of 0 for a missing one.
UpdateFromComputeNodeMutFalsyLeast(h, compute) ==
    IF FreshnessGuard(h, compute) THEN h
    ELSE [ApplyComputeNode(h, compute) EXCEPT
             !.free_disk_mb =
                 (IF IsSet(compute.disk_available_least)
                     /\ Val(compute.disk_available_least) # 0
                  THEN Val(compute.disk_available_least)
                  ELSE compute.free_disk_gb) * 1024]

\* A bug that adds the record's vcpus_used to the count already held.
UpdateFromComputeNodeMutAccumulate(h, compute) ==
    IF FreshnessGuard(h, compute) THEN h
    ELSE [ApplyComputeNode(h, compute) EXCEPT
             !.vcpus_used = h.vcpus_used + compute.vcpus_used]

\* HostState.update_from_compute_node.  When a metric is malformed the method
\* raises after having written everything up to that metric; the value is the
\* HostState as the exception leaves it.
update_from_compute_node(h, compute) ==
    IF FreshnessGuard(h, compute) THEN h ELSE ApplyComputeNode(h, compute)

update_from_compute_node_raises(h, compute) ==
    ~FreshnessGuard(h, compute) /\ MetricsRaise(compute)

\* vm_states.BUILDING and the task states that count as I/O work.
BUILDING == "building"
IoTaskStates == {"resize_migrating", "rebuilding", "resize_prep",
                 "image_snapshot", "image_backup"}

\* dict.get(key) of an optional instance field, used as a dict key.
KeyOfOpt(o) == IF IsSet(o) THEN Val(o) ELSE NoneKey

\* pci_stats.apply_requests(pci_requests) on a pool of n devices.
PciApply(stats, requested) ==
    IF Val(stats) >= requested THEN Some(Val(stats) - requested) ELSE stats

\* A bug that counts I/O work for building instances only.
ConsumeMutBuildingOnly(h, instance, t) ==
    LET disk_mb == (instance.root_gb + instance.ephemeral_gb) * 1024
        vm_state == IF IsSet(instance.vm_state) THEN Val(instance.vm_state)
                    ELSE BUILDING
        task_state == KeyOfOpt(instance.task_state)
    IN  [h EXCEPT
           !.free_ram_mb = @ - instance.memory_mb,
           !.free_disk_mb = @ - disk_mb,
           !.vcpus_used = @ + instance.vcpus,
           !.updated = Some(t),
           !.num_instances = @ + 1,
           !.num_instances_by_project = DictIncr(@, KeyOfOpt(instance.project_id)),
           !.vm_states = DictIncr(@, vm_state),
           !.task_states = DictIncr(@, task_state),
           !.num_instances_by_os_type = DictIncr(@, KeyOfOpt(instance.os_type)),
           !.pci_stats = IF instance.pci_requests > 0 /\ IsSet(h.pci_stats)
                         THEN PciApply(h.pci_stats, instance.pci_requests)
                         ELSE @,
           !.num_io_ops = IF vm_state = BUILDING THEN @ + 1 ELSE @]

\* A bug that never lets a free amount go below zero.
ConsumeMutClamp(h, instance, t) ==
    [h EXCEPT
       !.free_ram_mb = IF @ < instance.memory_mb THEN 0
                       ELSE @ - instance.memory_mb,
       !.free_disk_mb = IF @ < (instance.root_gb + instance.ephemeral_gb) * 1024
                        THEN 0
                        ELSE @ - (instance.root_gb + instance.ephemeral_gb) * 1024,
       !.vcpus_used = @ + instance.vcpus,
       !.updated = Some(t),
       !.num_instances = @ + 1]

\* HostState.consume_from_instance; `t` is timeutils.utcnow().
\* An instance is [root_gb, ephemeral_gb, memory_mb, vcpus, project_id,
\* vm_state, task_state, os_type, pci_requests] with project_id, vm_state,
\* task_state and os_type optional and pci_requests a device count.
consume_from_instance(h, instance, t) ==
    LET disk_mb == (instance.root_gb + instance.ephemeral_gb) * 1024
        vm_state == IF IsSet(instance.vm_state) THEN Val(instance.vm_state)
                    ELSE BUILDING
        task_state == KeyOfOpt(instance.task_state)
    IN  [h EXCEPT
           !.free_ram_mb = @ - instance.memory_mb,
           !.free_disk_mb = @ - disk_mb,
           !.vcpus_used = @ + instance.vcpus,
           !.updated = Some(t),
           !.num_instances = @ + 1,
           !.num_instances_by_project = DictIncr(@, KeyOfOpt(instance.project_id)),
           !.vm_states = DictIncr(@, vm_state),
           !.task_states = DictIncr(@, task_state),
           !.num_instances_by_os_type = DictIncr(@, KeyOfOpt(instance.os_type)),
           !.pci_stats = IF instance.pci_requests > 0 /\ IsSet(h.pci_stats)
                         THEN PciApply(h.pci_stats, instance.pci_requests)
                         ELSE @,
           !.num_io_ops = IF vm_state = BUILDING \/ task_state \in IoTaskStates
                          THEN @ + 1 ELSE @]

(***************************************************************************)
(* Inputs: compute-node records as db.compute_node_get_all returns them,   *)
(* and instances as the scheduler passes them to consume_from_instance.    *)
(***************************************************************************)
Times == 1..MaxTime
OptTimes == {None} \cup {Some(t) : t \in Times}

StatsA == << [key |-> <<"num_instances", "">>, value |-> 2],
             [key |-> <<"num_proj_", "p1">>, value |-> 2],
             [key |-> <<"num_vm_", "active">>, value |-> 2],
             [key |-> <<"num_task_", "None">>, value |-> 2],
             [key |-> <<"num_os_type_", "linux">>, value |-> 2],
             [key |-> <<"io_workload", "">>, value |-> 1] >>

StatsB == << [key |-> <<"num_instances", "">>, value |-> 1],
             [key |-> <<"num_proj_", "p2">>, value |-> 1],
             [key |-> <<"num_vm_", "building">>, value |-> 1],
             [key |-> <<"num_task_", "rebuilding">>, value |-> 1],
             [key |-> <<"num_os_type_", "None">>, value |-> 1] >>

MetricCpu == [name |-> Some("cpu.percent"), complete |-> TRUE, value |-> 7]
MetricNoName == [name |-> Some(""), complete |-> TRUE, value |-> 9]
MetricBroken == [name |-> Some("cpu.idle"), complete |-> FALSE, value |-> 0]

\* The part of a record that a compute node reports in one update.
Profiles ==
    { [used |-> 0, least |-> None, stats |-> <<>>, metrics |-> None,
       pci |-> None],
      [used |-> 1, least |-> Some(0), stats |-> StatsA,
       metrics |-> Some(<<MetricCpu>>), pci |-> Some(2)],
      [used |-> 2, least |-> Some(5), stats |-> StatsB,
       metrics |-> Some(<<MetricNoName, MetricCpu>>), pci |-> None],
      [used |-> 1, least |-> None, stats |-> StatsA,
       metrics |-> Some(<<MetricCpu, MetricBroken>>), pci |-> None] }

Compute(id, service, node, updated_at, p) ==
    [id |-> id, service |-> service, hypervisor_hostname |-> node,
     updated_at |-> updated_at,
     memory_mb |-> 8, free_ram_mb |-> 8 - 2 * p.used,
     local_gb |-> 10, local_gb_used |-> p.used, free_disk_gb |-> 10 - p.used,
     disk_available_least |-> p.least,
     vcpus |-> 4, vcpus_used |-> p.used,
     pci_stats |-> p.pci,
     host_ip |-> Some("10.0.0.1"), hypervisor_type |-> Some("kvm"),
     hypervisor_version |-> Some(1), cpu_info |-> Some("x86_64"),
     supported_instances |-> None,
     stats |-> p.stats, metrics |-> p.metrics]

HsService == [host |-> "host1", disabled |-> FALSE]

\* A node whose images may grow beyond the disk: disk_available_least < 0.
ProfileOvercommitted ==
    [used |-> 3, least |-> Some(-1), stats |-> <<>>, metrics |-> None,
     pci |-> None]

HsRecords ==
    { Compute(1, Some(HsService), Some("node1"), t, p) :
          t \in OptTimes, p \in Profiles \cup {ProfileOvercommitted} }

Instance(vcpus, project, vm_state, task_state, pci) ==
    [root_gb |-> 1, ephemeral_gb |-> 1, memory_mb |-> 2, vcpus |-> vcpus,
     project_id |-> project, vm_state |-> vm_state, task_state |-> task_state,
     os_type |-> None, pci_requests |-> pci]

Instances ==
    { Instance(1, Some("p1"), None, None, 0),
      Instance(2, None, Some("active"), Some("rebuilding"), 1),
      Instance(1, Some("p2"), Some("active"), None, 0) }

(***************************************************************************)
(* Specification SpecHostState: one HostState, constructed and then driven *)
(* by update_from_compute_node and consume_from_instance in any order.     *)
(***************************************************************************)
FhIdle == [pc |-> "idle"]
CsIdle == [instances |-> <<>>]
FcIdle == [pc |-> "idle"]
TcIdle == [pc |-> "idle"]

\* The host manager as HostManager.__init__ leaves it, with no inventory and
\* no request.
Workers == {"w1", "w2"}

WkIdle ==
    [pc |-> "idle", compute_nodes |-> <<>>, warned |-> {}, dead_nodes |-> {},
     hosts |-> EmptyDict, result |-> {}, since |-> {}, late |-> {}]

HmIdle ==
    /\ inventory = EmptyDict
    /\ service_states = EmptyDict
    /\ host_state_map = EmptyDict
    /\ wk = [w \in Workers |-> WkIdle]
    /\ gone = {}
    /\ dbOps = 0
    /\ beats = 0
    /\ hb = <<>>
    /\ cs = CsIdle
    /\ fc = FcIdle
    /\ tc = TcIdle

HsFrame == UNCHANGED <<fh, hmVars, auxVars>>

HsInit ==
    /\ now = 1
    /\ hs = NewHostState("host1", "node1", None, Some(HsService))
    /\ hsPrev = hs
    /\ hsLast = [op |-> "init", raised |-> FALSE]
    /\ hsSteps = 0
    /\ fh = FhIdle
    /\ HmIdle

HsUpdate(compute) ==
    /\ hsSteps < MaxHsSteps
    /\ hsPrev' = hs
    /\ hs' = update_from_compute_node(hs, compute)
    /\ hsLast' = [op |-> "update_from_compute_node", compute |-> compute,
                  raised |-> update_from_compute_node_raises(hs, compute)]
    /\ hsSteps' = hsSteps + 1
    /\ UNCHANGED now
    /\ HsFrame

HsConsume(instance) ==
    /\ hsSteps < MaxHsSteps
    /\ hsLast.op # "init"
    /\ hsPrev' = hs
    /\ hs' = consume_from_instance(hs, instance, now)
    /\ hsLast' = [op |-> "consume_from_instance", instance |-> instance,
                  raised |-> FALSE]
    /\ hsSteps' = hsSteps + 1
    /\ UNCHANGED now
    /\ HsFrame

HsTick ==
    /\ now < MaxTime
    /\ now' = now + 1
    /\ UNCHANGED <<hs, hsPrev, hsLast, hsSteps>>
    /\ HsFrame

HsNext ==
    \/ \E compute \in HsRecords : HsUpdate(compute)
    \/ \E instance \in Instances : HsConsume(instance)
    \/ HsTick

SpecHostState == HsInit /\ [][HsNext]_vars

\* C3: update_from_compute_node is monotone: called on a HostState whose
\* `updated` is set and later than the record's (set) updated_at, it leaves
\* every field of the HostState as it was.
C3_StaleRecordIsNoOp ==
    (/\ hsLast.op = "update_from_compute_node"
     /\ IsSet(hsPrev.updated)
     /\ IsSet(hsLast.compute.updated_at)
     /\ Val(hsPrev.updated) > Val(hsLast.compute.updated_at))
    => hs = hsPrev

\* A stale record that differs from what the HostState holds was applied to a
\* HostState that had consumed an instance since its last refresh.
C3_Witness ==
    /\ hsLast.op = "update_from_compute_node"
    /\ IsSet(hsPrev.updated)
    /\ IsSet(hsLast.compute.updated_at)
    /\ Val(hsPrev.updated) > Val(hsLast.compute.updated_at)
    /\ hsLast.compute.vcpus_used # hsPrev.vcpus_used
    /\ hsLast.compute.stats # <<>>
    /\ hs = hsPrev

(***************************************************************************)
(* Host filters and HostManager.get_filtered_hosts.                        *)
(*                                                                         *)
(* filter_properties is [ignore_hosts, force_hosts, force_nodes,           *)
(* instance_type] with the three lists as sets of names and instance_type  *)
(* optional.  The filter names of a call are [tag, v]: tag "None" (no      *)
(* names given), "list" (v is the list) or "str" (v holds the one bare     *)
(* name).  env holds what the filters read from outside the HostState:     *)
(* the configuration and the liveness oracle.                              *)
(***************************************************************************)

\* HostManager.filter_classes: the names of the available filter classes.
FilterClasses == {"CoreFilter", "ComputeFilter"}

RECURSIVE SelectNames(_, _, _)
SelectNames(names, known, want) ==
    IF names = <<>> THEN <<>>
    ELSE IF (Head(names) \in known) = want
         THEN <<Head(names)>> \o SelectNames(Tail(names), known, want)
         ELSE SelectNames(Tail(names), known, want)

\* A bug that drops unknown names instead of reporting them.
ChooseHostFiltersMutLenient(filter_cls_names, default_filters) ==
    LET names == IF filter_cls_names.tag = "None" THEN default_filters
                 ELSE filter_cls_names.v
    IN  [raised |-> FALSE, bad_filters |-> <<>>,
         good_filters |-> SelectNames(names, FilterClasses, TRUE)]

\* HostManager._choose_host_filters
_choose_host_filters(filter_cls_names, default_filters) ==
    LET names == IF filter_cls_names.tag = "None" THEN default_filters
                 ELSE filter_cls_names.v
        bad_filters == SelectNames(names, FilterClasses, FALSE)
    IN  [raised |-> bad_filters # <<>>, bad_filters |-> bad_filters,
         good_filters |-> SelectNames(names, FilterClasses, TRUE)]

\* A bug that forgets the vcpus already in use.
CoreFilterMutIgnoreUsed(h, props, env) ==
    IF ~IsSet(props.instance_type) THEN [passes |-> TRUE, host |-> h]
    ELSE IF h.vcpus_total = 0 THEN [passes |-> TRUE, host |-> h]
    ELSE [passes |-> h.vcpus_total * env.cpu_allocation_ratio
                         >= Val(props.instance_type).vcpus,
          host |-> IF h.vcpus_total * env.cpu_allocation_ratio > 0
                   THEN [h EXCEPT !.limits = DictSet(@, "vcpu",
                             h.vcpus_total * env.cpu_allocation_ratio)]
                   ELSE h]

\* BaseCoreFilter.host_passes with CoreFilter._get_cpu_allocation_ratio
CoreFilterPasses(h, props, env) ==
    IF ~IsSet(props.instance_type) THEN [passes |-> TRUE, host |-> h]
    ELSE IF h.vcpus_total = 0 THEN [passes |-> TRUE, host |-> h]
    ELSE LET instance_vcpus == Val(props.instance_type).vcpus
             vcpus_total == h.vcpus_total * env.cpu_allocation_ratio
         IN  [passes |-> (vcpus_total - h.vcpus_used) >= instance_vcpus,
              host |-> IF vcpus_total > 0
                       THEN [h EXCEPT !.limits = DictSet(@, "vcpu", vcpus_total)]
                       ELSE h]

\* servicegroup.API.service_is_up: the driver's verdict for the service.
service_is_up(service, env) == service.host \in env.up

\* A bug that asks the liveness oracle about disabled services too.
ComputeFilterMutIgnoreDisabled(h, props, env) ==
    [passes |-> service_is_up(h.service, env), host |-> h]

\* ComputeFilter.host_passes
ComputeFilterPasses(h, props, env) ==
    [passes |-> IF h.service.disabled THEN FALSE
                ELSE service_is_up(h.service, env),
     host |-> h]

host_passes(filter, h, props, env) ==
    IF filter = "CoreFilter" THEN CoreFilterPasses(h, props, env)
    ELSE ComputeFilterPasses(h, props, env)

\* The filter chain on one host: host_passes of each filter in order, on the
\* state the previous filters left, until one fails.
RECURSIVE RunFilters(_, _, _, _)
RunFilters(filters, h, props, env) ==
    IF filters = <<>> THEN [passes |-> TRUE, host |-> h, evaluated |-> {}]
    ELSE LET one == host_passes(Head(filters), h, props, env)
             rest == RunFilters(Tail(filters), one.host, props, env)
         IN  IF one.passes
             THEN [rest EXCEPT !.evaluated = @ \cup {Head(filters)}]
             ELSE [passes |-> FALSE, host |-> one.host,
                   evaluated |-> {Head(filters)}]

\* filter_handler.get_filtered_objects: `hosts` maps each (host, node) key to
\* its HostState; `keys` are the ones handed to the chain.
get_filtered_objects(filter_classes, hosts, keys, props, env) ==
    LET run == [k \in keys |-> RunFilters(filter_classes, hosts[k], props, env)]
    IN  [result |-> {k \in keys : run[k].passes},
         states |-> [k \in DOMAIN hosts |->
                        IF k \in keys THEN run[k].host ELSE hosts[k]],
         evaluated |-> UNION {{<<f, k>> : f \in run[k].evaluated} : k \in keys}]

\* A bug that takes the hostname for a unique key: of an ignored host's
\* nodes only one is deleted.
StripIgnoreHostsMutOneNode(host_map, hosts_to_ignore) ==
    {k \in host_map :
        ~(k[1] \in hosts_to_ignore
          /\ k = CHOOSE j \in host_map : j[1] = k[1])}

\* _strip_ignore_hosts, _match_forced_hosts, _match_forced_nodes
_strip_ignore_hosts(host_map, hosts_to_ignore) ==
    {k \in host_map : k[1] \notin hosts_to_ignore}

_match_forced_hosts(host_map, hosts_to_force) ==
    {k \in host_map : k[1] \in hosts_to_force}

\* A bug that forgets force_nodes.
MatchForcedNodesMutKeepAll(host_map, nodes_to_force) == host_map

_match_forced_nodes(host_map, nodes_to_force) ==
    {k \in host_map : k[2] \in nodes_to_force}

\* A bug that never skips the filters, and one that also skips them when
\* only ignore_hosts was given (the condition of line 407 used at line 420).
SkipFiltersMutNever(ignore_hosts, force_hosts, force_nodes, host_map) == FALSE

SkipFiltersMutIgnoreToo(ignore_hosts, force_hosts, force_nodes, host_map) ==
    (ignore_hosts # {} \/ force_hosts # {} \/ force_nodes # {}) /\ host_map # {}

\* Lines 420-423: with a force list given and a state left, the states are
\* returned as they are.
SkipFilters(ignore_hosts, force_hosts, force_nodes, host_map) ==
    (force_hosts # {} \/ force_nodes # {}) /\ host_map # {}

\* What one get_filtered_hosts call does: whether it raised, the keys of the
\* states it returns, every input state as the call left it, whether the
\* filter chain was entered, which host_passes were evaluated, and the audit
\* messages logged by the ignore/force steps.
FhOutcome(raised, result, states, chain_ran, evaluated, audit) ==
    [raised |-> raised, result |-> result, states |-> states,
     chain_ran |-> chain_ran, evaluated |-> evaluated, audit |-> audit]

\* HostManager.get_filtered_hosts
get_filtered_hosts(hosts, props, filter_class_names, env) ==
    LET chosen == _choose_host_filters(filter_class_names,
                                       env.scheduler_default_filters)
        ignore_hosts == props.ignore_hosts
        force_hosts == props.force_hosts
        force_nodes == props.force_nodes
        name_to_cls_map == DOMAIN hosts
        stripped == IF ignore_hosts # {}
                    THEN _strip_ignore_hosts(name_to_cls_map, ignore_hosts)
                    ELSE name_to_cls_map
        by_host == IF force_hosts # {}
                   THEN _match_forced_hosts(stripped, force_hosts)
                   ELSE stripped
        by_node == IF force_nodes # {}
                   THEN _match_forced_nodes(by_host, force_nodes)
                   ELSE by_host
        audit == (IF ignore_hosts # {} THEN <<"ignore_hosts">> ELSE <<>>)
                 \o (IF force_hosts # {} THEN <<"force_hosts">> ELSE <<>>)
                 \o (IF force_nodes # {} THEN <<"force_nodes">> ELSE <<>>)
        chain(keys, log) ==
            LET out == get_filtered_objects(chosen.good_filters, hosts, keys,
                                            props, env)
            IN  FhOutcome(FALSE, out.result, out.states, TRUE, out.evaluated, log)
    IN  IF chosen.raised
        THEN FhOutcome(TRUE, {}, hosts, FALSE, {}, <<>>)
        ELSE IF ignore_hosts # {} \/ force_hosts # {} \/ force_nodes # {}
        THEN IF ignore_hosts # {} /\ stripped = {}
             THEN FhOutcome(FALSE, {}, hosts, FALSE, {}, <<"ignore_hosts">>)
             ELSE IF SkipFilters(ignore_hosts, force_hosts, force_nodes, by_node)
             THEN FhOutcome(FALSE, by_node, hosts, FALSE, {}, audit)
             ELSE chain(by_node, audit)
        ELSE chain(DOMAIN hosts, <<>>)

(***************************************************************************)
(* Specification SpecFilter: get_filtered_hosts applied once to every      *)
(* input of a bounded set: up to three HostStates on two hosts (one host   *)
(* with two nodes), every ignore/force combination, filter names given,    *)
(* omitted, bare or unknown.                                               *)
(***************************************************************************)
HostNames == {"host1", "host2"}
NodeNames == {"node1", "node2"}
FhKeys == {<<"host1", "node1">>, <<"host1", "node2">>, <<"host2", "node1">>}

ServiceOf(host, disabled) == [host |-> host, disabled |-> disabled]

\* A HostState as a refresh leaves it for a record of the given load.
FreshHostState(key, disabled, used) ==
    LET service == ServiceOf(key[1], disabled)
        profile == CHOOSE p \in Profiles : p.used = used
    IN  update_from_compute_node(
            NewHostState(key[1], key[2], None, Some(service)),
            Compute(1, Some(service), Some(key[2]), Some(1), profile))

FhVariants ==
    {[disabled |-> FALSE, used |-> 0], [disabled |-> FALSE, used |-> 2],
     [disabled |-> TRUE, used |-> 0]}

FhHostSets ==
    UNION {[ks -> FhVariants] : ks \in SUBSET FhKeys}

FhHosts(choice) ==
    [k \in DOMAIN choice |-> FreshHostState(k, choice[k].disabled, choice[k].used)]

FhNames ==
    {[tag |-> "None", v |-> <<>>],
     [tag |-> "list", v |-> <<>>],
     [tag |-> "list", v |-> <<"CoreFilter">>],
     [tag |-> "list", v |-> <<"ComputeFilter", "CoreFilter">>],
     [tag |-> "list", v |-> <<"CoreFilter", "BogusFilter">>],
     [tag |-> "str", v |-> <<"ComputeFilter">>],
     [tag |-> "str", v |-> <<"BogusFilter">>]}

FhDefaults == {<<"ComputeFilter">>, <<"RetryFilter", "ComputeFilter">>}

FhProps ==
    [ignore_hosts : SUBSET HostNames, force_hosts : SUBSET HostNames,
     force_nodes : {{}, {"node1"}, {"node2"}},
     instance_type : {Some([vcpus |-> 3])}]

FhEnvs ==
    [scheduler_default_filters : FhDefaults, cpu_allocation_ratio : {1, 2},
     up : {HostNames, {"host2"}}]

FhInit ==
    /\ now = 1
    /\ hs = NewHostState("host1", "node1", None, Some(HsService))
    /\ hsPrev = hs
    /\ hsLast = [op |-> "init", raised |-> FALSE]
    /\ hsSteps = 0
    /\ HmIdle
    /\ \E choice \in FhHostSets, props \in FhProps, names \in FhNames,
          env \in FhEnvs :
          /\ names.tag # "None" =>
                 env.scheduler_default_filters = <<"ComputeFilter">>
          /\ fh = [pc |-> "call", hosts |-> FhHosts(choice), props |-> props,
                   names |-> names, env |-> env]

FhCall ==
    /\ fh.pc = "call"
    /\ fh' = [pc |-> "done", hosts |-> fh.hosts, props |-> fh.props,
              names |-> fh.names, env |-> fh.env,
              out |-> get_filtered_hosts(fh.hosts, fh.props, fh.names, fh.env)]
    /\ UNCHANGED <<now, hsVars, hmVars, auxVars>>

FhNext == FhCall

SpecFilter == FhInit /\ [][FhNext]_vars

FhReturned == fh.pc = "done" /\ ~fh.out.raised
FhRaised == fh.pc = "done" /\ fh.out.raised

\* C4: ignore_hosts removes hosts unconditionally: whatever the force lists
\* and the filter names, no returned state has a hostname in ignore_hosts.
C4_IgnoredNeverReturned ==
    fh.pc = "done" =>
        \A k \in fh.out.result : k[1] \notin fh.props.ignore_hosts

\* An ignored host that is also forced, has a second node and would pass the
\* filters is left out while another host is returned.
C4_Witness ==
    /\ FhReturned
    /\ "host1" \in fh.props.ignore_hosts
    /\ "host1" \in fh.props.force_hosts
    /\ {<<"host1", "node1">>, <<"host1", "node2">>} \subseteq DOMAIN fh.hosts
    /\ fh.out.result # {}

\* The names a call asks for: the given list, the bare name, or the
\* configured defaults when none is given.
FhRequested ==
    IF fh.names.tag = "None" THEN fh.env.scheduler_default_filters
    ELSE fh.names.v

FhForced == fh.props.force_hosts # {} \/ fh.props.force_nodes # {}

\* The states that survive the ignore and force rules of the call.
FhSurvivors ==
    {k \in DOMAIN fh.hosts :
        /\ k[1] \notin fh.props.ignore_hosts
        /\ fh.props.force_hosts # {} => k[1] \in fh.props.force_hosts
        /\ fh.props.force_nodes # {} => k[2] \in fh.props.force_nodes}

\* C5 as stated: when force_hosts = [H] and a state of host H is in the input,
\* a state of host H is in the result.
C5_Original ==
    \A H \in HostNames :
        (/\ fh.pc = "done"
         /\ fh.props.force_hosts = {H}
         /\ \E k \in DOMAIN fh.hosts : k[1] = H)
        => \E k \in fh.out.result : k[1] = H

\* C5 amended: when force_hosts = [H], H is not in ignore_hosts, the input has
\* a state of host H on a node that force_nodes allows (any node when
\* force_nodes is empty) and the call does not fail on an unknown filter name,
\* a state of host H is in the result whatever the filters decide.
C5_ForcedHostReturned ==
    \A H \in HostNames :
        (/\ FhReturned
         /\ fh.props.force_hosts = {H}
         /\ H \notin fh.props.ignore_hosts
         /\ \E k \in DOMAIN fh.hosts :
               /\ k[1] = H
               /\ fh.props.force_nodes # {} => k[2] \in fh.props.force_nodes)
        => \E k \in fh.out.result : k[1] = H

\* A forced host that ComputeFilter rejects (its service is disabled) is
\* returned although ComputeFilter is in the chain.
C5_Witness ==
    /\ FhReturned
    /\ fh.props.force_hosts = {"host1"}
    /\ fh.props.ignore_hosts = {}
    /\ fh.props.force_nodes = {}
    /\ <<"host1", "node1">> \in fh.out.result
    /\ fh.hosts[<<"host1", "node1">>].service.disabled
    /\ \E i \in 1..Len(FhRequested) : FhRequested[i] = "ComputeFilter"

\* C6 as stated: with a force list given, survivors are returned as they are
\* with no host_passes evaluated, and when none survives the filter chain is
\* run on the empty set.
C6_Original ==
    (FhReturned /\ FhForced) =>
        IF FhSurvivors # {}
        THEN /\ fh.out.result = FhSurvivors
             /\ fh.out.evaluated = {}
             /\ fh.out.states = fh.hosts
        ELSE fh.out.chain_ran /\ fh.out.result = {}

\* C6 amended: with a force list given, survivors are returned as they are
\* with no host_passes evaluated and no state written; when none survives the
\* result is empty, and the filter chain is run on the empty set unless
\* ignore_hosts was given and had already removed every state, in which case
\* the call returns at once without entering the chain.
C6_ForceSkipsFilters ==
    (FhReturned /\ FhForced) =>
        IF FhSurvivors # {}
        THEN /\ fh.out.result = FhSurvivors
             /\ fh.out.evaluated = {}
             /\ fh.out.states = fh.hosts
             /\ ~fh.out.chain_ran
        ELSE /\ fh.out.result = {}
             /\ fh.out.evaluated = {}
             /\ fh.out.chain_ran <=>
                   ~(/\ fh.props.ignore_hosts # {}
                     /\ \A k \in DOMAIN fh.hosts :
                           k[1] \in fh.props.ignore_hosts)

\* A forced call whose chain holds CoreFilter returns a survivor with its
\* limits untouched.
C6_Witness ==
    /\ FhReturned
    /\ fh.props.force_nodes = {"node1"}
    /\ fh.props.ignore_hosts = {"host2"}
    /\ fh.out.result = {<<"host1", "node1">>}
    /\ DOMAIN fh.hosts = FhKeys
    /\ \E i \in 1..Len(FhRequested) : FhRequested[i] = "CoreFilter"
    /\ fh.out.states[<<"host1", "node1">>].limits = EmptyDict

\* C7 as stated: every returned host passes every filter of the chain.
C7_Original ==
    FhReturned =>
        \A k \in fh.out.result : \A i \in 1..Len(FhRequested) :
            host_passes(FhRequested[i], fh.hosts[k], fh.props, fh.env).passes

\* C7 amended: unless a force list was given and left a survivor (the filters
\* are then skipped), every returned host passes host_passes of every filter
\* of the chain, evaluated on the state the host had when the call was made.
C7_ReturnedHostsPass ==
    (FhReturned /\ ~(FhForced /\ FhSurvivors # {})) =>
        \A k \in fh.out.result : \A i \in 1..Len(FhRequested) :
            host_passes(FhRequested[i], fh.hosts[k], fh.props, fh.env).passes

\* A call with two filters drops a host the first accepts and the second
\* rejects, drops one the first rejects, and returns a third.
C7_Witness ==
    /\ FhReturned
    /\ ~FhForced
    /\ fh.names.v = <<"ComputeFilter", "CoreFilter">>
    /\ fh.props.ignore_hosts = {}
    /\ DOMAIN fh.hosts = FhKeys
    /\ fh.out.result = {<<"host2", "node1">>}
    /\ <<"CoreFilter", <<"host1", "node1">>>> \in fh.out.evaluated
    /\ <<"CoreFilter", <<"host1", "node2">>>> \notin fh.out.evaluated

\* C8: the call fails with the unknown-filter error exactly when a requested
\* name (a default name when none is requested) is not an available filter
\* class; it then returns no host, has run no ignore/force step (nothing is
\* logged), has evaluated no filter and has written no state, also when the
\* force lists would have skipped the chain.
C8_UnknownFilterFailsFirst ==
    fh.pc = "done" =>
        /\ fh.out.raised <=>
               \E i \in 1..Len(FhRequested) : FhRequested[i] \notin FilterClasses
        /\ fh.out.raised =>
               /\ fh.out.result = {}
               /\ fh.out.audit = <<>>
               /\ fh.out.evaluated = {}
               /\ ~fh.out.chain_ran
               /\ fh.out.states = fh.hosts

\* The call fails on an unknown default name although force_hosts names a
\* live host and would have skipped the chain.
C8_Witness ==
    /\ FhRaised
    /\ fh.names.tag = "None"
    /\ fh.props.force_hosts = {"host1"}
    /\ fh.props.ignore_hosts = {}
    /\ FhSurvivors # {}

(***************************************************************************)
(* HostManager: the host-state cache, heartbeats and refreshes, and the    *)
(* requests served on top of it.                                           *)
(*                                                                         *)
(* The inventory is a table of at most two compute-node rows; row i has    *)
(* the fixed (host, node) pair RecKey(i), an owning service that may be    *)
(* null, and the updated_at of the compute node's last report (None until  *)
(* the first one), which also fixes the load it reports.                   *)
(*                                                                         *)
(* A request holds, for each host state it was handed, either a state of   *)
(* its own (alias = FALSE) or the cached object itself (alias = TRUE: the  *)
(* state is read and written through host_state_map).                      *)
(***************************************************************************)
RecIds == {1, 2}
RecHost(i) == IF i = 1 THEN "host1" ELSE "host2"
RecNode(i) == "node1"
RecKey(i) == <<RecHost(i), RecNode(i)>>
AllKeys == {RecKey(i) : i \in RecIds}

\* What the compute node reports at a given time.
ProfileAt(updated_at) ==
    CHOOSE p \in Profiles :
        p.used = IF IsSet(updated_at) /\ Val(updated_at) % 2 = 0 THEN 2 ELSE 0

Row(i, r) ==
    Compute(i, IF r.bound THEN Some(ServiceOf(RecHost(i), FALSE)) ELSE None,
            Some(RecNode(i)), r.updated_at, ProfileAt(r.updated_at))

\* db.compute_node_get_all: the rows, in the order of their ids.
RECURSIVE RowsFrom(_, _)
RowsFrom(inv, ids) ==
    IF ids = {} THEN <<>>
    ELSE LET i == CHOOSE x \in ids : \A y \in ids : x <= y
         IN  (IF i \in DOMAIN inv THEN <<Row(i, inv[i])>> ELSE <<>>)
             \o RowsFrom(inv, ids \ {i})

compute_node_get_all(inv) == RowsFrom(inv, RecIds)

\* The (host, node) pair of a record that has an owning service.
StateKey(compute) ==
    <<Val(compute.service).host, KeyOfOpt(compute.hypervisor_hostname)>>

\* The pairs a list of records names: those of the records with a service.
ServicedKeys(records) ==
    {StateKey(records[i]) : i \in {j \in 1..Len(records) : IsSet(records[j].service)}}

ListedKeys(inv) == ServicedKeys(compute_node_get_all(inv))

Restrict(d, keys) == [k \in (DOMAIN d) \cap keys |-> d[k]]

\* The loop of get_all_host_states (lines 460-480) over the records not yet
\* processed.  It stops where update_from_compute_node raises.
RECURSIVE RefreshLoop(_, _, _, _)
RefreshLoop(map, seen_nodes, records, sstates) ==
    IF records = <<>>
    THEN [map |-> map, seen_nodes |-> seen_nodes, raised |-> FALSE]
    ELSE LET compute == Head(records)
         IN  IF ~IsSet(compute.service)
             THEN RefreshLoop(map, seen_nodes, Tail(records), sstates)
             ELSE LET service == Val(compute.service)
                      state_key == StateKey(compute)
                      capabilities == IF state_key \in DOMAIN sstates
                                      THEN Some(sstates[state_key]) ELSE None
                      host_state ==
                          IF state_key \in DOMAIN map
                          THEN update_capabilities(map[state_key], capabilities,
                                                   Some(service))
                          ELSE NewHostState(state_key[1], state_key[2],
                                            capabilities, Some(service))
                      map1 == DictSet(map, state_key,
                                      update_from_compute_node(host_state, compute))
                  IN  IF update_from_compute_node_raises(host_state, compute)
                      THEN [map |-> map1, seen_nodes |-> seen_nodes,
                            raised |-> TRUE]
                      ELSE RefreshLoop(map1, seen_nodes \cup {state_key},
                                       Tail(records), sstates)

\* The ids of the records skipped with the "No service" warning (line 464).
Warned(records) ==
    {records[i].id : i \in {j \in 1..Len(records) : ~IsSet(records[j].service)}}

\* A bug that forgets to evict.
DeadNodesMutNone(map, seen_nodes) == {}

\* dead_nodes = set(self.host_state_map.keys()) - seen_nodes
DeadNodes(map, seen_nodes) == (DOMAIN map) \ seen_nodes

\* The selection driver's clone of a host state it was handed, and a driver
\* that uses the cached object as it is.
CloneHostStateMutShare(h) == [alias |-> TRUE, state |-> None]

CloneHostState(h) == [alias |-> FALSE, state |-> Some(h)]

\* The state of the host object a request holds under key k.
View(w, k) ==
    IF wk[w].hosts[k].alias THEN host_state_map[k] ELSE Val(wk[w].hosts[k].state)

ViewOf(w) == [k \in DOMAIN wk[w].hosts |-> View(w, k)]

\* Writing new states to the objects a request holds: into the cache for the
\* cached objects, into the request's own states for the others.
WriteCache(w, states) ==
    [k \in DOMAIN host_state_map |->
        IF k \in DOMAIN states /\ k \in DOMAIN wk[w].hosts /\ wk[w].hosts[k].alias
        THEN states[k] ELSE host_state_map[k]]

WriteOwn(w, states) ==
    [k \in DOMAIN wk[w].hosts |->
        IF k \in DOMAIN states /\ ~wk[w].hosts[k].alias
        THEN [alias |-> FALSE, state |-> Some(states[k])]
        ELSE wk[w].hosts[k]]

\* An object evicted from the cache lives on in the requests that hold it.
Detach(hosts, dead_nodes) ==
    [k \in DOMAIN hosts |->
        IF hosts[k].alias /\ k \in dead_nodes
        THEN [alias |-> FALSE, state |-> Some(host_state_map[k])]
        ELSE hosts[k]]

\* The request every worker serves.
ReqProps ==
    [ignore_hosts |-> {}, force_hosts |-> {}, force_nodes |-> {},
     instance_type |-> Some([vcpus |-> 3])]
ReqNames == [tag |-> "list", v |-> <<"CoreFilter">>]
ReqEnv ==
    [scheduler_default_filters |-> <<"ComputeFilter">>,
     cpu_allocation_ratio |-> 1, up |-> HostNames]
ReqInstance == Instance(3, Some("p1"), None, None, 0)

HmFrame == UNCHANGED <<hsVars, fh, auxVars>>

\* get_all_host_states up to the inventory query (line 459); the worker may
\* be suspended in the database call.
Query(w) ==
    /\ wk[w].pc = "idle"
    /\ wk' = [wk EXCEPT ![w] =
                 [@ EXCEPT !.pc = "queried",
                           !.compute_nodes = compute_node_get_all(inventory),
                           !.since = ListedKeys(inventory),
                           !.late = gone]]
    /\ UNCHANGED <<now, inventory, service_states, host_state_map, gone,
                   dbOps, beats>>
    /\ HmFrame

\* The rest of get_all_host_states (lines 460-490) and the driver's clone of
\* every state returned.  When update_from_compute_node raises, the call and
\* the request end there.
Refresh(w) ==
    /\ wk[w].pc = "queried"
    /\ LET loop == RefreshLoop(host_state_map, {}, wk[w].compute_nodes,
                               service_states)
           dead_nodes == DeadNodes(loop.map, loop.seen_nodes)
           map == Restrict(loop.map, (DOMAIN loop.map) \ dead_nodes)
       IN  IF loop.raised
           THEN /\ host_state_map' = loop.map
                /\ wk' = [wk EXCEPT ![w] = WkIdle]
                /\ UNCHANGED gone
           ELSE /\ host_state_map' = map
                /\ wk' = [u \in Workers |->
                            IF u = w
                            THEN [wk[w] EXCEPT
                                    !.pc = "hosts",
                                    !.compute_nodes = <<>>,
                                    !.since = {},
                                    !.warned = Warned(wk[w].compute_nodes),
                                    !.dead_nodes = dead_nodes,
                                    !.hosts = [k \in DOMAIN map |->
                                                  CloneHostState(map[k])]]
                            ELSE [wk[u] EXCEPT
                                    !.hosts = Detach(@, dead_nodes)]]
                /\ gone' = gone \cup (AllKeys \ wk[w].since)
    /\ UNCHANGED <<now, inventory, service_states, dbOps, beats>>
    /\ HmFrame

\* get_filtered_hosts on the states the request holds.  An unknown filter
\* name or an empty result ends the request.
Filter(w) ==
    /\ wk[w].pc = "hosts"
    /\ LET out == get_filtered_hosts(ViewOf(w), ReqProps, ReqNames, ReqEnv)
       IN  /\ host_state_map' = WriteCache(w, out.states)
           /\ wk' = [wk EXCEPT ![w] =
                        IF out.raised \/ out.result = {}
                        THEN WkIdle
                        ELSE [@ EXCEPT !.pc = "filtered",
                                       !.warned = {},
                                       !.dead_nodes = {},
                                       !.late = {},
                                       !.hosts = WriteOwn(w, out.states),
                                       !.result = out.result]]
    /\ UNCHANGED <<now, inventory, service_states, gone, dbOps, beats>>
    /\ HmFrame

\* The driver takes one of the filtered hosts (the weighers' choice) and
\* calls consume_from_instance on it.
Consume(w, k) ==
    /\ wk[w].pc = "filtered"
    /\ k \in wk[w].result
    /\ LET states == [j \in {k} |->
                         consume_from_instance(View(w, k), ReqInstance, now)]
       IN  /\ host_state_map' = WriteCache(w, states)
           /\ wk' = [wk EXCEPT ![w] =
                        [@ EXCEPT !.pc = "placed",
                                  !.hosts = WriteOwn(w, states),
                                  !.result = {k}]]
    /\ UNCHANGED <<now, inventory, service_states, gone, dbOps, beats>>
    /\ HmFrame

\* The request returns its destination; its locals are dropped.
Finish(w) ==
    /\ wk[w].pc = "placed"
    /\ wk' = [wk EXCEPT ![w] = WkIdle]
    /\ UNCHANGED <<now, inventory, service_states, host_state_map, gone,
                   dbOps, beats>>
    /\ HmFrame

\* A bug that keeps the first entry of a key.
UpdateServiceCapabilitiesMutKeepFirst(sstates, service_name, host, capabilities, t) ==
    IF service_name # "compute"
           \/ <<host, KeyOfOpt(capabilities.hypervisor_hostname)>> \in DOMAIN sstates
    THEN sstates
    ELSE DictSet(sstates,
                 <<host, KeyOfOpt(capabilities.hypervisor_hostname)>>,
                 [hypervisor_hostname |-> capabilities.hypervisor_hostname,
                  vcpus |-> capabilities.vcpus, timestamp |-> t])

\* A bug that stores the heartbeat of any service.
UpdateServiceCapabilitiesMutAnyService(sstates, service_name, host, capabilities, t) ==
    DictSet(sstates,
            <<host, KeyOfOpt(capabilities.hypervisor_hostname)>>,
            [hypervisor_hostname |-> capabilities.hypervisor_hostname,
             vcpus |-> capabilities.vcpus, timestamp |-> t])

\* HostManager.update_service_capabilities; `t` is timeutils.utcnow().
update_service_capabilities(sstates, service_name, host, capabilities, t) ==
    IF service_name # "compute" THEN sstates
    ELSE DictSet(sstates,
                 <<host, KeyOfOpt(capabilities.hypervisor_hostname)>>,
                 [hypervisor_hostname |-> capabilities.hypervisor_hostname,
                  vcpus |-> capabilities.vcpus, timestamp |-> t])

Capabilities == {[hypervisor_hostname |-> Some("node1"), vcpus |-> 4]}

Heartbeat(service_name, host, capabilities) ==
    /\ beats < MaxBeats
    /\ beats' = IF service_name = "compute" THEN beats + 1 ELSE beats
    /\ service_states' = update_service_capabilities(service_states,
                             service_name, host, capabilities, now)
    /\ UNCHANGED <<now, inventory, host_state_map, wk, gone, dbOps>>
    /\ HmFrame

\* The inventory changes behind the scheduler's back: a compute node reports
\* (at a time later than every earlier report), a row is deleted, a row is
\* created (with or without its service).
Listed(inv) ==
    /\ gone' = gone \ ListedKeys(inv)
    /\ wk' = [w \in Workers |->
                 [wk[w] EXCEPT !.since = IF wk[w].pc = "queried"
                                         THEN @ \cup ListedKeys(inv) ELSE @]]

DbReport(i) ==
    /\ now < 1 + MaxReports
    /\ i \in DOMAIN inventory
    /\ now' = now + 1
    /\ inventory' = [inventory EXCEPT ![i].updated_at = Some(now')]
    /\ Listed(inventory')
    /\ UNCHANGED <<service_states, host_state_map, dbOps, beats>>
    /\ HmFrame

DbDelete(i) ==
    /\ dbOps < MaxDbOps
    /\ i \in DOMAIN inventory
    /\ inventory' = Restrict(inventory, RecIds \ {i})
    /\ dbOps' = dbOps + 1
    /\ UNCHANGED <<now, service_states, host_state_map, wk, gone, beats>>
    /\ HmFrame

DbCreate(i, bound) ==
    /\ dbOps < MaxDbOps
    /\ i \notin DOMAIN inventory
    /\ inventory' = DictSet(inventory, i, [bound |-> bound, updated_at |-> None])
    /\ dbOps' = dbOps + 1
    /\ Listed(inventory')
    /\ UNCHANGED <<now, service_states, host_state_map, beats>>
    /\ HmFrame

InitialRows ==
    [bound : BOOLEAN, updated_at : {None}]

Init ==
    /\ now = 1
    /\ hs = NewHostState("host1", "node1", None, Some(HsService))
    /\ hsPrev = hs
    /\ hsLast = [op |-> "init", raised |-> FALSE]
    /\ hsSteps = 0
    /\ fh = FhIdle
    /\ inventory \in UNION {[ids -> InitialRows] : ids \in SUBSET RecIds}
    /\ service_states = EmptyDict
    /\ host_state_map = EmptyDict
    /\ wk = [w \in Workers |-> WkIdle]
    /\ gone = {}
    /\ dbOps = 0
    /\ beats = 0
    /\ hb = <<>>
    /\ cs = CsIdle
    /\ fc = FcIdle
    /\ tc = TcIdle

Next ==
    \/ \E w \in Workers : Query(w)
    \/ \E w \in Workers : Refresh(w)
    \/ \E w \in Workers : Filter(w)
    \/ \E w \in Workers, k \in AllKeys : Consume(w, k)
    \/ \E w \in Workers : Finish(w)
    \/ \E service_name \in {"compute", "network"}, capabilities \in Capabilities :
          Heartbeat(service_name, "host1", capabilities)
    \/ \E i \in RecIds : DbReport(i)
    \/ \E i \in RecIds : DbDelete(i)
    \/ \E i \in RecIds, bound \in BOOLEAN : DbCreate(i, bound)

Spec == Init /\ [][Next]_vars

\* Worker w's get_all_host_states call completes in this step.
Completes(w) == wk[w].pc = "queried" /\ wk'[w].pc = "hosts"

\* C1: when a get_all_host_states call completes, the keys of host_state_map
\* are exactly the (service.host, hypervisor_hostname) pairs of the records
\* its query returned that have an owning service: a record without a service
\* adds or keeps nothing, and every cached key the call did not see is gone.
C1_KeysAreServicedRecords ==
    [][\A w \in Workers :
          Completes(w) =>
              DOMAIN host_state_map' = ServicedKeys(wk[w].compute_nodes)]_vars

\* A call that both skipped a record without a service and evicted a cached
\* pair has completed.
C1_Witness ==
    \E w \in Workers :
        /\ wk[w].pc = "hosts"
        /\ wk[w].warned # {}
        /\ wk[w].dead_nodes # {}
        /\ DOMAIN host_state_map = DOMAIN wk[w].hosts

\* C2: a pair that a completed refresh found absent from its inventory query,
\* and that the inventory has not listed since, is in the result of no
\* get_all_host_states call made after that refresh, and so in no filtered
\* result of such a call.
C2_EvictedStaysOut ==
    [][\A w \in Workers :
          /\ Completes(w) => (DOMAIN wk'[w].hosts) \cap wk[w].late = {}
          /\ (wk[w].pc = "hosts" /\ wk'[w].pc = "filtered") =>
                 wk'[w].result \subseteq DOMAIN wk[w].hosts]_vars

\* A later call found such a pair back in the cache (put there by a call that
\* had queried before the row was deleted), evicted it and returned without it.
C2_Witness ==
    \E w \in Workers, k \in AllKeys :
        /\ wk[w].pc = "hosts"
        /\ k \in wk[w].late
        /\ k \in wk[w].dead_nodes
        /\ k \notin DOMAIN wk[w].hosts
        /\ k \notin DOMAIN host_state_map

\* C9: the filters and consume_from_instance of a request write to the
\* request's clones: the steps in which a request filters or consumes leave
\* every entry of host_state_map as it was.
C9_RequestLeavesCacheAlone ==
    [][\A w \in Workers :
          (wk[w].pc \in {"hosts", "filtered"} /\ wk'[w].pc # wk[w].pc) =>
              host_state_map' = host_state_map]_vars

\* A request has filtered and consumed: its state of the chosen host carries
\* the limit and the vcpus of the instance, the cached state of that host
\* carries neither.
C9_Witness ==
    \E w \in Workers, k \in AllKeys :
        /\ wk[w].pc = "placed"
        /\ k \in wk[w].result
        /\ k \in DOMAIN host_state_map
        /\ View(w, k).limits # host_state_map[k].limits
        /\ View(w, k).vcpus_used = host_state_map[k].vcpus_used + 3
        /\ View(w, k).num_instances = host_state_map[k].num_instances + 1
        /\ host_state_map[k].limits = EmptyDict

C11_Serialised ==
    [][\A w \in Workers :
          (Completes(w) /\ \A u \in Workers \ {w} : wk[u].pc # "queried") =>
              (DOMAIN host_state_map') \cap gone' = {}]_vars

(***************************************************************************)
(* Heartbeats: HostManager.update_service_capabilities called with any     *)
(* service name, host and capabilities, at any time.  hb is the log of the *)
(* calls received.                                                         *)
(***************************************************************************)
HbServiceNames == {"compute", "network"}
HbCapabilities ==
    [hypervisor_hostname : {Some("node1"), None}, vcpus : {4, 8}]

HbInit ==
    /\ now = 1
    /\ hs = NewHostState("host1", "node1", None, Some(HsService))
    /\ hsPrev = hs
    /\ hsLast = [op |-> "init", raised |-> FALSE]
    /\ hsSteps = 0
    /\ fh = FhIdle
    /\ inventory = EmptyDict
    /\ service_states = EmptyDict
    /\ host_state_map \in
           {EmptyDict,
            [k \in {<<"host1", "node1">>} |-> FreshHostState(k, FALSE, 0)]}
    /\ wk = [w \in Workers |-> WkIdle]
    /\ gone = {}
    /\ dbOps = 0
    /\ beats = 0
    /\ hb = <<>>
    /\ cs = CsIdle
    /\ fc = FcIdle
    /\ tc = TcIdle

HbCall(service_name, host, capabilities) ==
    /\ Len(hb) < MaxHbCalls
    /\ service_states' = update_service_capabilities(service_states,
                             service_name, host, capabilities, now)
    /\ hb' = Append(hb, [service_name |-> service_name, host |-> host,
                         capabilities |-> capabilities, t |-> now])
    /\ UNCHANGED <<now, hsVars, fh, inventory, host_state_map, wk, gone,
                   dbOps, beats, cs, fc, tc>>

HbTick ==
    /\ now < MaxTime
    /\ now' = now + 1
    /\ UNCHANGED <<hsVars, fh, hmVars, auxVars>>

HbNext ==
    \/ \E service_name \in HbServiceNames, host \in HostNames,
          capabilities \in HbCapabilities :
          HbCall(service_name, host, capabilities)
    \/ HbTick

SpecHeartbeat == HbInit /\ [][HbNext]_vars

\* The key a logged call names, and the index of the last compute call of the
\* log for a key (0 when there is none).
HbKey(c) == <<c.host, KeyOfOpt(c.capabilities.hypervisor_hostname)>>
HbKeys == HostNames \X {"node1", NoneKey}

RECURSIVE HbLastCompute(_, _, _)
HbLastCompute(log, key, i) ==
    IF i = 0 THEN 0
    ELSE IF log[i].service_name = "compute" /\ HbKey(log[i]) = key THEN i
    ELSE HbLastCompute(log, key, i - 1)

\* C12: after any sequence of update_service_capabilities calls, the entry of
\* service_states for a (host, hypervisor_hostname) key is the capabilities
\* of the last compute heartbeat received for that key with the time of its
\* reception, and a key that received none has no entry.
C12_LastWriterWins ==
    \A key \in HbKeys :
        LET i == HbLastCompute(hb, key, Len(hb))
        IN  IF i = 0 THEN key \notin DOMAIN service_states
            ELSE /\ key \in DOMAIN service_states
                 /\ service_states[key] =
                        [hypervisor_hostname |-> hb[i].capabilities.hypervisor_hostname,
                         vcpus |-> hb[i].capabilities.vcpus,
                         timestamp |-> hb[i].t]

\* A key was written twice with different capabilities at different times,
\* with a heartbeat for another key in between: it holds the second, and the
\* other key holds its own.
C12_Witness ==
    /\ Len(hb) = 3
    /\ \A i \in 1..3 : hb[i].service_name = "compute"
    /\ HbKey(hb[1]) = HbKey(hb[3])
    /\ HbKey(hb[2]) # HbKey(hb[1])
    /\ hb[1].capabilities.vcpus # hb[3].capabilities.vcpus
    /\ hb[1].t < hb[3].t
    /\ service_states[HbKey(hb[3])].vcpus = hb[3].capabilities.vcpus
    /\ service_states[HbKey(hb[3])].timestamp = hb[3].t
    /\ service_states[HbKey(hb[2])].timestamp = hb[2].t

\* C13: a call of update_service_capabilities whose service_name is not
\* "compute" leaves service_states and host_state_map unchanged.
C13_NonComputeIgnored ==
    [][(Len(hb') > Len(hb) /\ hb'[Len(hb')].service_name # "compute") =>
           /\ service_states' = service_states
           /\ host_state_map' = host_state_map]_vars

\* A non-compute heartbeat arrived for a key that has an entry with other
\* capabilities, while the cache holds a host state.
C13_Witness ==
    /\ hb # <<>>
    /\ hb[Len(hb)].service_name # "compute"
    /\ host_state_map # EmptyDict
    /\ HbKey(hb[Len(hb)]) \in DOMAIN service_states
    /\ service_states[HbKey(hb[Len(hb)])].vcpus # hb[Len(hb)].capabilities.vcpus

(***************************************************************************)
(* Consumption: one HostState, as a refresh left it, on which              *)
(* consume_from_instance is called with any instances, one after another.  *)
(***************************************************************************)
CsInitials ==
    { update_from_compute_node(
          NewHostState("host1", "node1", None, Some(HsService)),
          Compute(1, Some(HsService), Some("node1"), Some(1), p)) :
      p \in {q \in Profiles : ~MetricsRaise(q)} }

CsInstances ==
    { [root_gb |-> r, ephemeral_gb |-> e, memory_mb |-> mem, vcpus |-> v,
       project_id |-> None, vm_state |-> None, task_state |-> None,
       os_type |-> None, pci_requests |-> 0] :
      r \in {0, 1}, e \in {0, 2}, mem \in {0, 5}, v \in {1, 2} }

CsInit ==
    /\ now = 1
    /\ hs \in CsInitials
    /\ hsPrev = hs
    /\ hsLast = [op |-> "init", raised |-> FALSE]
    /\ hsSteps = 0
    /\ fh = FhIdle
    /\ inventory = EmptyDict
    /\ service_states = EmptyDict
    /\ host_state_map = EmptyDict
    /\ wk = [w \in Workers |-> WkIdle]
    /\ gone = {}
    /\ dbOps = 0
    /\ beats = 0
    /\ hb = <<>>
    /\ cs = [instances |-> <<>>, initial |-> hs]
    /\ fc = FcIdle
    /\ tc = TcIdle

CsConsume(instance) ==
    /\ Len(cs.instances) < MaxConsumes
    /\ hsPrev' = hs
    /\ hs' = consume_from_instance(hs, instance, now)
    /\ cs' = [cs EXCEPT !.instances = Append(@, instance)]
    /\ UNCHANGED <<now, hsLast, hsSteps, fh, hmVars, hb, fc, tc>>

CsNext ==
    \/ \E instance \in CsInstances : CsConsume(instance)
    \/ HsTick

SpecConsume == CsInit /\ [][CsNext]_vars

\* The sums of the amounts a sequence of instances asks for.
RECURSIVE CsRam(_)
CsRam(instances) ==
    IF instances = <<>> THEN 0
    ELSE Head(instances).memory_mb + CsRam(Tail(instances))

RECURSIVE CsDisk(_)
CsDisk(instances) ==
    IF instances = <<>> THEN 0
    ELSE (Head(instances).root_gb + Head(instances).ephemeral_gb) * 1024
         + CsDisk(Tail(instances))

RECURSIVE CsVcpus(_)
CsVcpus(instances) ==
    IF instances = <<>> THEN 0
    ELSE Head(instances).vcpus + CsVcpus(Tail(instances))

\* C14: after any sequence of consume_from_instance calls, free_ram_mb is its
\* initial value less the sum of the instances' memory_mb, free_disk_mb its
\* initial value less the sum of (root_gb + ephemeral_gb) * 1024, vcpus_used
\* its initial value plus the sum of the instances' vcpus; each call changes
\* them by its own amounts, and nothing is clamped at zero.
C14_ConsumeIsExact ==
    /\ hs.free_ram_mb = cs.initial.free_ram_mb - CsRam(cs.instances)
    /\ hs.free_disk_mb = cs.initial.free_disk_mb - CsDisk(cs.instances)
    /\ hs.vcpus_used = cs.initial.vcpus_used + CsVcpus(cs.instances)
    /\ cs.instances # <<>> =>
           LET instance == cs.instances[Len(cs.instances)]
           IN  /\ hs.free_ram_mb = hsPrev.free_ram_mb - instance.memory_mb
               /\ hs.free_disk_mb = hsPrev.free_disk_mb
                      - (instance.root_gb + instance.ephemeral_gb) * 1024
               /\ hs.vcpus_used = hsPrev.vcpus_used + instance.vcpus

\* Three different instances were consumed; free memory and free disk have
\* gone below zero and more vcpus are used than the host has.
C14_Witness ==
    /\ Len(cs.instances) = 3
    /\ cs.instances[1] # cs.instances[2]
    /\ cs.instances[2] # cs.instances[3]
    /\ cs.initial.free_ram_mb > 0
    /\ cs.initial.free_disk_mb > 0
    /\ hs.free_ram_mb < 0
    /\ hs.free_disk_mb < 0
    /\ hs.vcpus_used > hs.vcpus_total

(***************************************************************************)
(* Host filters: one host_passes call of one filter on one host state.     *)
(*                                                                         *)
(* An aggregate metadata value is a string, modelled as the sequence of    *)
(* its characters; "x" stands for any character that is not a digit.       *)
(***************************************************************************)
Digits == <<"0", "1", "2", "3", "4", "5", "6", "7", "8", "9">>
IsDigit(c) == \E d \in 1..10 : Digits[d] = c
DigitValue(c) == (CHOOSE d \in 1..10 : Digits[d] = c) - 1

\* The code point of a character: ord("0") = 48 .. ord("9") = 57, ord("x") = 120.
Ord(c) == IF IsDigit(c) THEN 48 + DigitValue(c) ELSE 120

\* Python's str comparison a < b.
RECURSIVE StrLess(_, _)
StrLess(a, b) ==
    IF b = <<>> THEN FALSE
    ELSE IF a = <<>> THEN TRUE
    ELSE IF Ord(Head(a)) # Ord(Head(b)) THEN Ord(Head(a)) < Ord(Head(b))
    ELSE StrLess(Tail(a), Tail(b))

\* min() of a non-empty set of strings.
StrMin(vals) == CHOOSE a \in vals : \A b \in vals \ {a} : StrLess(a, b)

\* float(s): the number a string of digits denotes; ValueError otherwise.
FloatRaises(str) == str = <<>> \/ \E i \in 1..Len(str) : ~IsDigit(str[i])

RECURSIVE FloatOf(_)
FloatOf(str) ==
    IF str = <<>> THEN 0
    ELSE 10 * FloatOf(SubSeq(str, 1, Len(str) - 1)) + DigitValue(str[Len(str)])

\* AggregateCoreFilter._get_cpu_allocation_ratio; env.aggregate_metadata is
\* the set db.aggregate_metadata_get_by_host returns for the host under the
\* key cpu_allocation_ratio.
AggregateRatio(h, env) ==
    LET aggregate_vals == env.aggregate_metadata
    IN  IF aggregate_vals = {} THEN env.cpu_allocation_ratio
        ELSE IF FloatRaises(StrMin(aggregate_vals)) THEN env.cpu_allocation_ratio
        ELSE FloatOf(StrMin(aggregate_vals))

\* BaseCoreFilter.host_passes with AggregateCoreFilter's ratio.
AggregateCoreFilterPasses(h, props, env) ==
    CoreFilterPasses(h, props,
        [env EXCEPT !.cpu_allocation_ratio = AggregateRatio(h, env)])

\* Whether ComputeFilter.host_passes calls servicegroup_api.service_is_up.
ComputeFilterConsults(h) == ~h.service.disabled

FcFilters == {"CoreFilter", "AggregateCoreFilter", "ComputeFilter"}

FcHostPasses(filter, h, props, env) ==
    IF filter = "CoreFilter" THEN CoreFilterPasses(h, props, env)
    ELSE IF filter = "AggregateCoreFilter"
    THEN AggregateCoreFilterPasses(h, props, env)
    ELSE ComputeFilterPasses(h, props, env)

\* The arguments of the call: host states of every load, with and without a
\* limit left by an earlier request, of an enabled or a disabled service.
FcHosts ==
    { [FreshHostState(<<"host1", "node1">>, disabled, 0) EXCEPT
          !.vcpus_total = total, !.vcpus_used = used, !.limits = limits] :
      disabled \in BOOLEAN, total \in {0, 2, 4}, used \in {0, 2, 4},
      limits \in {EmptyDict, [k \in {"vcpu"} |-> 16]} }

FcProps ==
    { [ignore_hosts |-> {}, force_hosts |-> {}, force_nodes |-> {},
       instance_type |-> it] : it \in {None, Some([vcpus |-> 2])} }

AggStrings == { <<"2">>, <<"9">>, <<"1", "0">>, <<"x">> }

FcEnvs ==
    [scheduler_default_filters : {<<"ComputeFilter">>},
     cpu_allocation_ratio : {0, 1, 2},
     up : {{}, {"host1"}},
     aggregate_metadata : SUBSET AggStrings]

FcInit ==
    /\ now = 1
    /\ hs = NewHostState("host1", "node1", None, Some(HsService))
    /\ hsPrev = hs
    /\ hsLast = [op |-> "init", raised |-> FALSE]
    /\ hsSteps = 0
    /\ fh = FhIdle
    /\ inventory = EmptyDict
    /\ service_states = EmptyDict
    /\ host_state_map = EmptyDict
    /\ wk = [w \in Workers |-> WkIdle]
    /\ gone = {}
    /\ dbOps = 0
    /\ beats = 0
    /\ hb = <<>>
    /\ cs = CsIdle
    /\ tc = TcIdle
    /\ \E filter \in FcFilters, h \in FcHosts, props \in FcProps, env \in FcEnvs :
          fc = [pc |-> "call", filter |-> filter, host |-> h, props |-> props,
                env |-> env]

FcCall ==
    /\ fc.pc = "call"
    /\ fc' = [pc |-> "done", filter |-> fc.filter, host |-> fc.host,
              props |-> fc.props, env |-> fc.env,
              out |-> FcHostPasses(fc.filter, fc.host, fc.props, fc.env),
              ratio |-> AggregateRatio(fc.host, fc.env),
              consulted |-> ComputeFilterConsults(fc.host)]
    /\ UNCHANGED <<now, hsVars, fh, hmVars, hb, cs, tc>>

FcNext == FcCall

SpecHostFilter == FcInit /\ [][FcNext]_vars

FcDone(filter) == fc.pc = "done" /\ fc.filter = filter

\* The claim of C15 as the spec words it: with an instance_type and
\* vcpus_total > 0 the limit is always set to vcpus_total * R.
C15_Original ==
    FcDone("CoreFilter") =>
        LET h == fc.host
            R == fc.env.cpu_allocation_ratio
        IN  IF IsSet(fc.props.instance_type) /\ h.vcpus_total > 0
            THEN /\ fc.out.host.limits = DictSet(h.limits, "vcpu", h.vcpus_total * R)
                 /\ fc.out.passes <=>
                        h.vcpus_total * R - h.vcpus_used
                            >= Val(fc.props.instance_type).vcpus
            ELSE fc.out.passes /\ fc.out.host = h

\* C15: with an instance_type and vcpus_total > 0, the Cores filter passes
\* iff vcpus_total * R - vcpus_used >= instance.vcpus, and sets
\* limits["vcpu"] to vcpus_total * R when that product is positive (it leaves
\* the limits alone when R is 0); with vcpus_total = 0 or no instance_type it
\* passes and changes nothing.  S1: total 4, used 0 passes and total 2, used 2
\* fails for vcpus 2, R 1; S2: total 4, used 4, R 2 passes with limit 8.
C15_CoreFilter ==
    FcDone("CoreFilter") =>
        LET h == fc.host
            R == fc.env.cpu_allocation_ratio
        IN  IF IsSet(fc.props.instance_type) /\ h.vcpus_total > 0
            THEN /\ fc.out.host =
                        IF h.vcpus_total * R > 0
                        THEN [h EXCEPT !.limits =
                                  DictSet(h.limits, "vcpu", h.vcpus_total * R)]
                        ELSE h
                 /\ fc.out.passes <=>
                        h.vcpus_total * R - h.vcpus_used
                            >= Val(fc.props.instance_type).vcpus
            ELSE fc.out.passes /\ fc.out.host = h

\* Scenario S2: a host with all 4 vcpus in use passes at ratio 2, and the
\* limit 8 replaces the limit an earlier request left.
C15_Witness ==
    /\ FcDone("CoreFilter")
    /\ IsSet(fc.props.instance_type)
    /\ fc.host.vcpus_total = 4
    /\ fc.host.vcpus_used = 4
    /\ fc.env.cpu_allocation_ratio = 2
    /\ fc.host.limits # EmptyDict
    /\ fc.out.passes
    /\ fc.out.host.limits["vcpu"] = 8

\* C16: in a call that reaches the ratio (instance_type present, vcpus_total
\* > 0), the aggregate variant uses as R the numerically smallest of the
\* cpu_allocation_ratio values of the host's aggregates, and the global
\* cpu_allocation_ratio when there is no value or no value parses as a number.
C16_AggregateMinimum ==
    (/\ FcDone("AggregateCoreFilter")
     /\ IsSet(fc.props.instance_type)
     /\ fc.host.vcpus_total > 0) =>
        LET vals == fc.env.aggregate_metadata
            parsed == {FloatOf(v) : v \in {u \in vals : ~FloatRaises(u)}}
            R == IF parsed = {} THEN fc.env.cpu_allocation_ratio
                 ELSE CHOOSE r \in parsed : \A q \in parsed : r <= q
        IN  (vals = {} \/ parsed = {} \/ \A v \in vals : ~FloatRaises(v)) =>
                /\ fc.ratio = R
                /\ fc.out = CoreFilterPasses(fc.host, fc.props,
                                [fc.env EXCEPT !.cpu_allocation_ratio = R])

\* C17: the ActiveCompute filter passes a host iff its service record is not
\* disabled and the liveness oracle reports the service up; for a disabled
\* service it fails without asking the oracle.  It changes nothing on the
\* host state.
C17_ActiveCompute ==
    FcDone("ComputeFilter") =>
        /\ fc.out.passes <=>
               (~fc.host.service.disabled /\ fc.host.service.host \in fc.env.up)
        /\ fc.host.service.disabled => (~fc.out.passes /\ ~fc.consulted)
        /\ ~fc.host.service.disabled => fc.consulted
        /\ fc.out.host = fc.host

\* A disabled service that the oracle would report up: the host fails and the
\* oracle was not asked.
C17_Witness ==
    /\ FcDone("ComputeFilter")
    /\ fc.host.service.disabled
    /\ fc.host.service.host \in fc.env.up
    /\ ~fc.out.passes
    /\ ~fc.consulted

(***************************************************************************)
(* Trusted filter (filters/trusted_filter.py): the attestation cache, the  *)
(* attestation service behind it and TrustedFilter.host_passes.            *)
(*                                                                         *)
(* A cache entry is [trust_lvl, vtime]; the epoch is time 0 and the clock  *)
(* starts more than attestation_auth_timeout after it.  What the service   *)
(* does with one PollHosts request is a reply:                             *)
(*   [kind |-> "ok", hosts |-> Some(states)]  a JSON body with "hosts"     *)
(*   [kind |-> "ok", hosts |-> None]          a JSON body without "hosts"  *)
(*   [kind |-> "refused"]   connecting fails with socket.error / IOError   *)
(*   [kind |-> "status"]    the HTTP status is not a success               *)
(*   [kind |-> "garbled"]   httplib or the JSON decoder raises             *)
(* states maps each host_name the body mentions to its trust_lvl and its   *)
(* vtime string, [valid, t]: an ISO time t, or text that does not parse.   *)
(***************************************************************************)
Epoch == 0
UnknownEntry == [trust_lvl |-> "unknown", vtime |-> Epoch]

\* timeutils.is_older_than(before, seconds): utcnow() - before > seconds
is_older_than(before, seconds, t) == t - before > seconds

\* A bug that never trusts the cache.
CacheValidMutNever(nodes, host, t) == FALSE

\* ComputeAttestationCache._cache_valid
_cache_valid(nodes, host, t) ==
    /\ host \in DOMAIN nodes
    /\ ~is_older_than(nodes[host].vtime, attestation_auth_timeout, t)

\* ComputeAttestationCache._init_cache_entry
_init_cache_entry(nodes, host) == DictSet(nodes, host, UnknownEntry)

\* ComputeAttestationCache._invalidate_caches
_invalidate_caches(nodes) == [host \in DOMAIN nodes |-> UnknownEntry]

\* A bug that ignores the verdict on a host the cache does not hold.
UpdateCacheEntryMutKnownOnly(nodes, host, state, t) ==
    IF host \notin DOMAIN nodes THEN nodes
    ELSE DictSet(nodes, host,
                 IF state.vtime.valid
                 THEN [trust_lvl |-> state.trust_lvl, vtime |-> state.vtime.t]
                 ELSE [trust_lvl |-> "unknown", vtime |-> t])

\* A bug that keeps the returned level when the vtime does not parse.
UpdateCacheEntryMutKeepLevel(nodes, host, state, t) ==
    DictSet(nodes, host,
            IF state.vtime.valid
            THEN [trust_lvl |-> state.trust_lvl, vtime |-> state.vtime.t]
            ELSE [trust_lvl |-> state.trust_lvl, vtime |-> t])

\* ComputeAttestationCache._update_cache_entry
_update_cache_entry(nodes, host, state, t) ==
    DictSet(nodes, host,
            IF state.vtime.valid
            THEN [trust_lvl |-> state.trust_lvl, vtime |-> state.vtime.t]
            ELSE [trust_lvl |-> "unknown", vtime |-> t])

\* A bug that lets the connection error escape.
DoAttestationMutRaise(reply) ==
    IF reply.kind \in {"garbled", "refused"} THEN [raised |-> TRUE, result |-> None]
    ELSE IF reply.kind = "ok" THEN [raised |-> FALSE, result |-> reply.hosts]
    ELSE [raised |-> FALSE, result |-> None]

\* AttestationService.do_attestation on the service's reply.
do_attestation(reply) ==
    IF reply.kind = "garbled" THEN [raised |-> TRUE, result |-> None]
    ELSE IF reply.kind = "ok" THEN [raised |-> FALSE, result |-> reply.hosts]
    ELSE [raised |-> FALSE, result |-> None]

\* The loop of _update_cache over the states of the response.
RECURSIVE UpdateEntries(_, _, _, _)
UpdateEntries(nodes, states, todo, t) ==
    IF todo = {} THEN nodes
    ELSE LET host == CHOOSE h \in todo : TRUE
         IN  UpdateEntries(_update_cache_entry(nodes, host, states[host], t),
                           states, todo \ {host}, t)

\* A bug that keeps the old entries instead of resetting them.
UpdateCacheMutNoReset(nodes, reply, t) ==
    IF do_attestation(reply).raised THEN [raised |-> TRUE, nodes |-> nodes]
    ELSE IF ~IsSet(do_attestation(reply).result)
    THEN [raised |-> FALSE, nodes |-> nodes]
    ELSE [raised |-> FALSE,
          nodes |-> UpdateEntries(nodes, Val(do_attestation(reply).result),
                                  DOMAIN Val(do_attestation(reply).result), t)]

\* ComputeAttestationCache._update_cache
_update_cache(nodes, reply, t) ==
    LET reset == _invalidate_caches(nodes)
        att == do_attestation(reply)
    IN  IF att.raised THEN [raised |-> TRUE, nodes |-> reset]
        ELSE IF ~IsSet(att.result) THEN [raised |-> FALSE, nodes |-> reset]
        ELSE [raised |-> FALSE,
              nodes |-> UpdateEntries(reset, Val(att.result),
                                      DOMAIN Val(att.result), t)]

\* ComputeAttestationCache.get_host_attestation: the level returned, the
\* cache it leaves, whether the service was polled and with which keys.
get_host_attestation(nodes, host, reply, t) ==
    LET known == IF host \notin DOMAIN nodes
                 THEN _init_cache_entry(nodes, host) ELSE nodes
        update == _update_cache(known, reply, t)
    IN  IF _cache_valid(known, host, t)
        THEN [raised |-> FALSE, called |-> FALSE, polled |-> {},
              nodes |-> known, level |-> known[host].trust_lvl]
        ELSE [raised |-> update.raised, called |-> TRUE,
              polled |-> DOMAIN known, nodes |-> update.nodes,
              level |-> IF update.raised THEN "raised"
                        ELSE update.nodes[host].trust_lvl]

\* A bug that looks the host up before testing whether a level is requested.
TrustedFilterMutAlwaysAsk(nodes, host, trust, reply, t) ==
    LET got == get_host_attestation(nodes, host, reply, t)
    IN  [raised |-> got.raised, called |-> got.called,
         polled |-> got.polled, nodes |-> got.nodes, level |-> got.level,
         passes |-> ~got.raised /\ (IsSet(trust) => Val(trust) = got.level)]

\* TrustedFilter.host_passes with ComputeAttestation.is_trusted; `trust` is
\* extra_specs.get('trust:trusted_host').
TrustedFilterPasses(nodes, host, trust, reply, t) ==
    LET got == get_host_attestation(nodes, host, reply, t)
    IN  IF IsSet(trust) /\ Val(trust) # ""
        THEN [raised |-> got.raised, called |-> got.called,
              polled |-> got.polled, nodes |-> got.nodes, level |-> got.level,
              passes |-> ~got.raised /\ Val(trust) = got.level]
        ELSE [raised |-> FALSE, called |-> FALSE, polled |-> {},
              nodes |-> nodes, level |-> "none", passes |-> TRUE]

TcHosts == {"host1", "host2"}
TcTrusts == {None, Some("trusted"), Some("unknown")}

\* The vtime strings a response carries at time t, and the replies of the
\* service at time t to a poll (NoReply when no poll is made).
TcVtimes(t) == {[valid |-> TRUE, t |-> t], [valid |-> FALSE, t |-> Epoch]}

TcStates(t) ==
    UNION { [mentioned -> [trust_lvl : {"trusted", "untrusted"},
                           vtime : TcVtimes(t)]] :
            mentioned \in SUBSET TcHosts }

NoReply == [kind |-> "none"]

TcReplies(t) ==
    {[kind |-> "ok", hosts |-> Some(states)] : states \in TcStates(t)}
        \cup {[kind |-> "ok", hosts |-> None], [kind |-> "refused"],
              [kind |-> "status"], [kind |-> "garbled"]}

\* The verdicts a poll returned with vtime equal to the time of the poll.
Fresh(fresh, out, reply, t) ==
    IF out.called /\ ~out.raised /\ reply.kind = "ok" /\ IsSet(reply.hosts)
    THEN LET states == Val(reply.hosts)
             now_fresh == {h \in DOMAIN states :
                              states[h].vtime.valid /\ states[h].vtime.t = t}
         IN  [h \in (DOMAIN fresh) \cup now_fresh |->
                 IF h \in now_fresh
                 THEN [trust_lvl |-> states[h].trust_lvl, at |-> t]
                 ELSE fresh[h]]
    ELSE fresh

\* For every host whose latest mention in a response had a vtime that
\* does not parse, the time of that poll.
Unparsed(bad, out, reply, t) ==
    IF out.called /\ ~out.raised /\ reply.kind = "ok" /\ IsSet(reply.hosts)
    THEN LET states == Val(reply.hosts)
             now_bad == {h \in DOMAIN states : ~states[h].vtime.valid}
         IN  [h \in ((DOMAIN bad) \ DOMAIN states) \cup now_bad |->
                 IF h \in now_bad THEN t ELSE bad[h]]
    ELSE bad

\* The same, forgetting at every poll the verdicts the poll did not return.
Kept(kept, out, reply, t) ==
    IF out.called THEN Fresh(EmptyDict, out, reply, t) ELSE kept

\* The level a lookup of `host` at time t is due when a verdict recorded less
\* than attestation_auth_timeout ago is reused.
Promised(verdicts, host, t) ==
    IF host \in DOMAIN verdicts /\ t - verdicts[host].at < attestation_auth_timeout
    THEN Some(verdicts[host].trust_lvl)
    ELSE None

TcInit ==
    /\ now = attestation_auth_timeout + 1
    /\ hs = NewHostState("host1", "node1", None, Some(HsService))
    /\ hsPrev = hs
    /\ hsLast = [op |-> "init", raised |-> FALSE]
    /\ hsSteps = 0
    /\ fh = FhIdle
    /\ inventory = EmptyDict
    /\ service_states = EmptyDict
    /\ host_state_map = EmptyDict
    /\ wk = [w \in Workers |-> WkIdle]
    /\ gone = {}
    /\ dbOps = 0
    /\ beats = 0
    /\ hb = <<>>
    /\ cs = CsIdle
    /\ fc = FcIdle
    /\ \E computes \in {{}, {"host1"}} :
          tc = [pc |-> "ready",
                compute_nodes |-> [host \in computes |-> UnknownEntry],
                calls |-> 0, fresh |-> EmptyDict, kept |-> EmptyDict,
                bad |-> EmptyDict,
                last |-> [op |-> "init"]]

\* One TrustedFilter.host_passes call; the service's reply is drawn only when
\* the call polls the service.
TcHostPasses(host, trust, reply) ==
    /\ tc.pc = "ready"
    /\ tc.calls < MaxTcCalls
    /\ LET out == TrustedFilterPasses(tc.compute_nodes, host, trust, reply, now)
       IN  /\ out.called <=> reply # NoReply
           /\ tc' = [pc |-> "ready",
                     compute_nodes |-> out.nodes,
                     calls |-> tc.calls + 1,
                     fresh |-> Fresh(tc.fresh, out, reply, now),
                     kept |-> Kept(tc.kept, out, reply, now),
                     bad |-> Unparsed(tc.bad, out, reply, now),
                     last |-> [op |-> "host_passes", host |-> host,
                               trust |-> trust, reply |-> reply, t |-> now,
                               before |-> tc.compute_nodes,
                               promised |-> Promised(tc.fresh, host, now),
                               kept |-> Promised(tc.kept, host, now),
                               unparsed |-> IF host \in DOMAIN tc.bad
                                            THEN Some(tc.bad[host]) ELSE None,
                               out |-> out]]
    /\ UNCHANGED <<now, hsVars, fh, hmVars, hb, cs, fc>>

TcTick ==
    /\ tc.pc = "ready"
    /\ now < attestation_auth_timeout + 1 + MaxTcTicks
    /\ now' = now + 1
    /\ UNCHANGED <<hsVars, fh, hmVars, auxVars>>

TcNext ==
    \/ \E host \in TcHosts, trust \in TcTrusts,
          reply \in TcReplies(now) \cup {NoReply} :
          TcHostPasses(host, trust, reply)
    \/ TcTick

SpecTrusted == TcInit /\ [][TcNext]_vars

TcPolled == tc.last.op = "host_passes" /\ tc.last.out.called
TcNullResponse ==
    tc.last.reply.kind # "ok" \/ ~IsSet(tc.last.reply.hosts)

\* The claim of C18 as the spec words it: every host a non-null response
\* mentions carries the returned trust level.
C18_Original ==
    (TcPolled /\ ~TcNullResponse) =>
        \A host \in DOMAIN Val(tc.last.reply.hosts) :
            tc.compute_nodes[host].trust_lvl =
                Val(tc.last.reply.hosts)[host].trust_lvl

\* C18: a refresh polls the service with the full current key set after
\* resetting every entry to "unknown" at the epoch.  After a null response
\* every cached host is "unknown"; after a non-null response every host it
\* does not mention is "unknown", every host it mentions with a vtime that
\* parses carries the returned trust level and vtime, and every host it
\* mentions with a vtime that does not parse is "unknown" as of now.
C18_RefreshResets ==
    TcPolled =>
        LET known == (DOMAIN tc.last.before) \cup {tc.last.host}
        IN  /\ tc.last.out.polled = known
            /\ IF TcNullResponse
               THEN /\ DOMAIN tc.compute_nodes = known
                    /\ \A host \in known : tc.compute_nodes[host] = UnknownEntry
               ELSE LET states == Val(tc.last.reply.hosts)
                    IN  /\ DOMAIN tc.compute_nodes = known \cup DOMAIN states
                        /\ \A host \in known \ DOMAIN states :
                               tc.compute_nodes[host] = UnknownEntry
                        /\ \A host \in DOMAIN states :
                               tc.compute_nodes[host] =
                                   IF states[host].vtime.valid
                                   THEN [trust_lvl |-> states[host].trust_lvl,
                                         vtime |-> states[host].vtime.t]
                                   ELSE [trust_lvl |-> "unknown",
                                         vtime |-> tc.last.t]

\* A poll made for host1 got a response that mentions host1 only: host2,
\* which was cached as trusted, is "unknown" again and host1 is trusted.
C18_Witness ==
    /\ TcPolled
    /\ ~TcNullResponse
    /\ tc.last.host = "host1"
    /\ DOMAIN Val(tc.last.reply.hosts) = {"host1"}
    /\ "host2" \in DOMAIN tc.last.before
    /\ tc.last.before["host2"].trust_lvl = "trusted"
    /\ tc.compute_nodes["host2"] = UnknownEntry
    /\ tc.compute_nodes["host1"].trust_lvl = "trusted"

\* The claim of C19 as the spec words it: the verdict is reused whatever
\* lookups of other hosts were made in between.
C19_Original ==
    (/\ tc.last.op = "host_passes"
     /\ IsSet(tc.last.trust)
     /\ IsSet(tc.last.promised)) =>
        /\ ~tc.last.out.called
        /\ tc.last.out.level = Val(tc.last.promised)

\* C19: once a poll has returned host h with vtime equal to the time of the
\* poll, every get_host_attestation(h) made less than attestation_auth_timeout
\* later returns that trust level without polling the service, as long as no
\* other poll was made in between (a lookup of a host whose entry is absent
\* or stale polls the service and resets the entry of h as well).
C19_CacheReuse ==
    (/\ tc.last.op = "host_passes"
     /\ IsSet(tc.last.trust)
     /\ IsSet(tc.last.kept)) =>
        /\ ~tc.last.out.called
        /\ tc.last.out.level = Val(tc.last.kept)
        /\ tc.compute_nodes = tc.last.before

\* Three lookups: the first polled and got both hosts as of then; the third,
\* one tick later, is for host1 and returns "trusted" from the cache.
C19_Witness ==
    /\ tc.calls = 3
    /\ tc.last.op = "host_passes"
    /\ tc.last.host = "host1"
    /\ tc.last.trust = Some("trusted")
    /\ DOMAIN tc.kept = TcHosts
    /\ tc.last.t > tc.kept["host1"].at
    /\ ~tc.last.out.called
    /\ tc.last.out.passes

\* A host_passes call that found the host's verdict stale and whose poll
\* could not reach the service.
TcUnreachable ==
    /\ tc.last.op = "host_passes"
    /\ IsSet(tc.last.trust)
    /\ tc.last.out.called
    /\ tc.last.reply.kind = "refused"

\* The claim of C20 as the spec words it: the host fails for every request
\* that sets trust:trusted_host.
C20_Original ==
    TcUnreachable => (~tc.last.out.passes /\ ~tc.last.out.raised)

\* C20: when the service cannot be reached and the host's cached verdict is
\* stale, the host is treated as "unknown" and nothing is raised: host_passes
\* returns false for a request that asks for "trusted" (or any level other
\* than "unknown") and true for a request that asks for "unknown".
C20_UnreachableIsUnknown ==
    TcUnreachable =>
        /\ ~tc.last.out.raised
        /\ tc.last.out.level = "unknown"
        /\ tc.compute_nodes[tc.last.host] = UnknownEntry
        /\ tc.last.out.passes <=> (tc.last.trust = Some("unknown"))

\* The host was cached as trusted, the verdict has gone stale, the service is
\* unreachable: a request for a trusted host fails on it without an error.
C20_Witness ==
    /\ TcUnreachable
    /\ tc.last.trust = Some("trusted")
    /\ tc.last.host \in DOMAIN tc.last.before
    /\ tc.last.before[tc.last.host].trust_lvl = "trusted"
    /\ tc.last.t - tc.last.before[tc.last.host].vtime > attestation_auth_timeout
    /\ ~tc.last.out.passes
    /\ ~tc.last.out.raised

(***************************************************************************)
(* The attestation cache behind a service that answers with any host name  *)
(* and any trust_lvl text.                                                 *)
(***************************************************************************)
TcWildStates(t) ==
    UNION { [mentioned -> [trust_lvl : {"trusted", "bogus"},
                           vtime : {[valid |-> TRUE, t |-> t]}]] :
            mentioned \in SUBSET {"host1", "host3"} }

TcWildReplies(t) ==
    {[kind |-> "ok", hosts |-> Some(states)] : states \in TcWildStates(t)}
        \cup {[kind |-> "refused"]}

TcWildNext ==
    \/ \E host \in TcHosts, trust \in TcTrusts,
          reply \in TcWildReplies(now) \cup {NoReply} :
          TcHostPasses(host, trust, reply)
    \/ TcTick

SpecTrustedWild == TcInit /\ [][TcWildNext]_vars

TrustLevels == {"trusted", "untrusted", "unknown"}

\* C21: in every reachable state of the attestation cache every entry's
\* trust_lvl is one of trusted, untrusted, unknown, whatever host names and
\* trust_lvl values the service's responses carry.
C21_LevelsAreKnown ==
    \A host \in DOMAIN tc.compute_nodes :
        tc.compute_nodes[host].trust_lvl \in TrustLevels

\* A lookup of a host the service last reported with a vtime that does not
\* parse, made while attestation_auth_timeout has not elapsed since.
TcAfterUnparsed ==
    /\ tc.last.op = "host_passes"
    /\ IsSet(tc.last.trust)
    /\ IsSet(tc.last.unparsed)
    /\ tc.last.t - Val(tc.last.unparsed) < attestation_auth_timeout

\* The claim of C22 as the spec words it: after a vtime that cannot be
\* parsed, lookups of the host return "unknown" and do not poll again until
\* attestation_auth_timeout has elapsed.
C22_Original ==
    TcAfterUnparsed =>
        (~tc.last.out.called /\ tc.last.out.level = "unknown")

\* C22: when the vtime returned for a host cannot be parsed, the host's entry
\* is stored as "unknown" with vtime = now whatever level was returned; while
\* that entry is in the cache (no other poll has replaced it), lookups of
\* the host made before attestation_auth_timeout has elapsed return "unknown"
\* without polling the service.
C22_UnparsedIsUnknown ==
    /\ (TcPolled /\ ~TcNullResponse) =>
           \A host \in DOMAIN Val(tc.last.reply.hosts) :
               ~Val(tc.last.reply.hosts)[host].vtime.valid =>
                   tc.compute_nodes[host] =
                       [trust_lvl |-> "unknown", vtime |-> tc.last.t]
    /\ (/\ TcAfterUnparsed
        /\ tc.last.host \in DOMAIN tc.last.before
        /\ tc.last.before[tc.last.host] =
               [trust_lvl |-> "unknown", vtime |-> Val(tc.last.unparsed)]) =>
           /\ ~tc.last.out.called
           /\ tc.last.out.level = "unknown"
           /\ tc.compute_nodes = tc.last.before

\* The service returned host1 as trusted with a vtime that does not parse; a
\* tick later a request for a trusted host looks host1 up again: no poll, the
\* level is "unknown" and the host fails.
C22_Witness ==
    /\ TcAfterUnparsed
    /\ tc.last.host = "host1"
    /\ tc.last.trust = Some("trusted")
    /\ tc.last.t > Val(tc.last.unparsed)
    /\ tc.last.before["host1"] =
           [trust_lvl |-> "unknown", vtime |-> Val(tc.last.unparsed)]
    /\ ~tc.last.out.called
    /\ tc.last.out.level = "unknown"
    /\ ~tc.last.out.passes

\* C23: when trust:trusted_host is set, host_passes returns true iff the level
\* the attestation cache reports for host_state.host equals the requested
\* level; when it is not set, host_passes returns true and neither reads nor
\* refreshes the attestation cache.
C23_TrustedFilter ==
    tc.last.op = "host_passes" =>
        IF IsSet(tc.last.trust)
        THEN ~tc.last.out.raised =>
                 /\ tc.last.host \in DOMAIN tc.compute_nodes
                 /\ tc.last.out.level = tc.compute_nodes[tc.last.host].trust_lvl
                 /\ tc.last.out.passes <=>
                        (Val(tc.last.trust) =
                             tc.compute_nodes[tc.last.host].trust_lvl)
        ELSE /\ tc.last.out.passes
             /\ ~tc.last.out.raised
             /\ ~tc.last.out.called
             /\ tc.compute_nodes = tc.last.before

\* A request without trust:trusted_host on a host the cache has never seen,
\* after an earlier request that set it: the host passes, the service is not
\* polled and the cache has no entry for the host.
C23_Witness ==
    /\ tc.last.op = "host_passes"
    /\ tc.last.trust = None
    /\ tc.last.host = "host2"
    /\ "host2" \notin DOMAIN tc.compute_nodes
    /\ "host1" \in DOMAIN tc.compute_nodes
    /\ tc.compute_nodes["host1"].trust_lvl = "untrusted"
    /\ tc.last.out.passes
    /\ ~tc.last.out.called

(***************************************************************************)
(* The attestation cache under concurrent lookups.  The scheduler runs its *)
(* requests as green threads over monkey-patched sockets, so a lookup      *)
(* gives up the processor where do_attestation talks to the service and    *)
(* nowhere else; trusted_filter.py takes no lock.  A lookup is two steps:  *)
(* AcBegin up to the request sent to the service, AcReply from the reply   *)
(* to the return.                                                          *)
(***************************************************************************)
MaxAcCalls == 3

AcThreadIdle == [pc |-> "idle"]

AcReplies(t) ==
    {[kind |-> "ok", hosts |-> Some(states)] :
        states \in UNION { [mentioned -> [trust_lvl : {"trusted"},
                                          vtime : {[valid |-> TRUE, t |-> t]}]] :
                           mentioned \in SUBSET TcHosts }}
        \cup {[kind |-> "refused"], [kind |-> "garbled"]}

AcInit ==
    /\ now = attestation_auth_timeout + 1
    /\ hs = NewHostState("host1", "node1", None, Some(HsService))
    /\ hsPrev = hs
    /\ hsLast = [op |-> "init", raised |-> FALSE]
    /\ hsSteps = 0
    /\ fh = FhIdle
    /\ inventory = EmptyDict
    /\ service_states = EmptyDict
    /\ host_state_map = EmptyDict
    /\ wk = [w \in Workers |-> WkIdle]
    /\ gone = {}
    /\ dbOps = 0
    /\ beats = 0
    /\ hb = <<>>
    /\ cs = CsIdle
    /\ fc = FcIdle
    /\ tc = [pc |-> "shared", compute_nodes |-> EmptyDict, calls |-> 0,
             th |-> [w \in Workers |-> AcThreadIdle]]

AcRefreshing == {w \in Workers : tc.th[w].pc = "polling"}

\* get_host_attestation up to the request to the service: the entry is
\* created if absent; a valid entry is returned at once, otherwise every
\* entry is reset and the PollHosts request goes out.
AcBegin(w, host) ==
    /\ tc.pc = "shared"
    /\ tc.th[w].pc = "idle"
    /\ tc.calls < MaxAcCalls
    /\ LET known == IF host \notin DOMAIN tc.compute_nodes
                    THEN _init_cache_entry(tc.compute_nodes, host)
                    ELSE tc.compute_nodes
       IN  IF _cache_valid(known, host, now)
           THEN tc' = [tc EXCEPT !.compute_nodes = known,
                                 !.calls = @ + 1,
                                 !.th[w] = [pc |-> "returned", host |-> host,
                                            polled |-> FALSE,
                                            level |-> known[host].trust_lvl,
                                            entry |-> known[host],
                                            during |-> AcRefreshing # {}]]
           ELSE tc' = [tc EXCEPT !.compute_nodes = _invalidate_caches(known),
                                 !.calls = @ + 1,
                                 !.th[w] = [pc |-> "polling", host |-> host,
                                            keys |-> DOMAIN known]]
    /\ UNCHANGED <<now, hsVars, fh, hmVars, hb, cs, fc>>

\* The reply arrives: the rest of _update_cache and the return of
\* get_host_attestation.
AcReply(w, reply) ==
    /\ tc.pc = "shared"
    /\ tc.th[w].pc = "polling"
    /\ LET att == do_attestation(reply)
           nodes == IF att.raised \/ ~IsSet(att.result) THEN tc.compute_nodes
                    ELSE UpdateEntries(tc.compute_nodes, Val(att.result),
                                       DOMAIN Val(att.result), now)
       IN  tc' = [tc EXCEPT !.compute_nodes = nodes,
                            !.th[w] = IF att.raised
                                      THEN [pc |-> "raised",
                                            host |-> tc.th[w].host]
                                      ELSE [pc |-> "returned",
                                            host |-> tc.th[w].host,
                                            polled |-> TRUE,
                                            level |-> nodes[tc.th[w].host].trust_lvl,
                                            entry |-> nodes[tc.th[w].host],
                                            during |-> AcRefreshing # {w}]]
    /\ UNCHANGED <<now, hsVars, fh, hmVars, hb, cs, fc>>

\* The caller takes the result; the thread serves the next request.
AcFinish(w) ==
    /\ tc.pc = "shared"
    /\ tc.th[w].pc \in {"returned", "raised"}
    /\ tc' = [tc EXCEPT !.th[w] = AcThreadIdle]
    /\ UNCHANGED <<now, hsVars, fh, hmVars, hb, cs, fc>>

AcTick ==
    /\ tc.pc = "shared"
    /\ now < attestation_auth_timeout + 1 + MaxTcTicks
    /\ now' = now + 1
    /\ UNCHANGED <<hsVars, fh, hmVars, auxVars>>

AcNext ==
    \/ \E w \in Workers, host \in TcHosts : AcBegin(w, host)
    \/ \E w \in Workers, reply \in AcReplies(now) : AcReply(w, reply)
    \/ \E w \in Workers : AcFinish(w)
    \/ AcTick

SpecAttest == AcInit /\ [][AcNext]_vars

\* A caller that did not refresh the cache itself is never given an entry in
\* the reset state while another caller's refresh is in progress.
AcNoIntermediateRead ==
    \A w \in Workers :
        (tc.th[w].pc = "returned" /\ ~tc.th[w].polled /\ tc.th[w].during) =>
            tc.th[w].entry # UnknownEntry

\* C24: refresh of the attestation cache is a critical section: at most one
\* refresh (invalidate, poll, update) is in progress at any time, and no
\* caller is returned the all-"unknown" state written by a refresh another
\* caller has started but not finished.
C24_RefreshIsCritical ==
    /\ Cardinality(AcRefreshing) <= 1
    /\ AcNoIntermediateRead

\* get_all_host_states run to completion on a cache, the records of one
\* inventory query and the service_states: the cache it leaves.
RefreshOnce(map, records, sstates) ==
    LET loop == RefreshLoop(map, {}, records, sstates)
    IN  [raised |-> loop.raised,
         map |-> IF loop.raised THEN loop.map
                 ELSE Restrict(loop.map,
                               (DOMAIN loop.map) \ DeadNodes(loop.map,
                                                            loop.seen_nodes))]

\* C25: refresh is idempotent: when a get_all_host_states call completes,
\* a second call against the same inventory records and the same
\* service_states completes too and leaves a host_state_map with the same
\* keys and the same field values in every HostState.
C25_RefreshIdempotent ==
    [][\A w \in Workers :
          Completes(w) =>
              LET again == RefreshOnce(host_state_map', wk[w].compute_nodes,
                                       service_states)
              IN  ~again.raised /\ again.map = host_state_map']_vars

\* Both workers have completed a refresh on a cache that holds a host with
\* instances on it, and the two calls returned the same states.
C25_Witness ==
    /\ \A w \in Workers : wk[w].pc = "hosts"
    /\ wk["w1"].hosts = wk["w2"].hosts
    /\ \E k \in DOMAIN host_state_map : host_state_map[k].vcpus_used > 0

(***************************************************************************)
(* get_all_host_states on records whose metrics column may hold an entry   *)
(* without one of its required keys.  The records of a query are drawn     *)
(* from every profile a compute node can report.                           *)
(***************************************************************************)
MrRow(i, r) ==
    Compute(i, IF r.bound THEN Some(ServiceOf(RecHost(i), FALSE)) ELSE None,
            Some(RecNode(i)), Some(1), r.profile)

RECURSIVE MrRowsFrom(_, _)
MrRowsFrom(rows, ids) ==
    IF ids = {} THEN <<>>
    ELSE LET i == CHOOSE x \in ids : \A y \in ids : x <= y
         IN  <<MrRow(i, rows[i])>> \o MrRowsFrom(rows, ids \ {i})

MrRecords ==
    {MrRowsFrom(rows, DOMAIN rows) :
        rows \in UNION {[ids -> [bound : BOOLEAN, profile : Profiles]] :
                        ids \in SUBSET RecIds}}

MrInit ==
    /\ now = 1
    /\ hs = NewHostState("host1", "node1", None, Some(HsService))
    /\ hsPrev = hs
    /\ hsLast = [op |-> "init", raised |-> FALSE]
    /\ hsSteps = 0
    /\ fh = FhIdle
    /\ inventory = EmptyDict
    /\ service_states = EmptyDict
    /\ host_state_map = EmptyDict
    /\ wk = [w \in Workers |-> WkIdle]
    /\ gone = {}
    /\ dbOps = 0
    /\ beats = 0
    /\ hb = <<>>
    /\ cs = CsIdle
    /\ fc = FcIdle
    /\ tc = TcIdle

\* get_all_host_states up to the inventory query, which returns `records`.
MrQuery(w, records) ==
    /\ wk[w].pc = "idle"
    /\ wk' = [wk EXCEPT ![w] =
                 [@ EXCEPT !.pc = "queried",
                           !.compute_nodes = records,
                           !.since = ServicedKeys(records),
                           !.late = gone]]
    /\ UNCHANGED <<now, inventory, service_states, host_state_map, gone,
                   dbOps, beats>>
    /\ HmFrame

\* The request drops the states it was given.
MrReturn(w) ==
    /\ wk[w].pc = "hosts"
    /\ wk' = [wk EXCEPT ![w] = WkIdle]
    /\ UNCHANGED <<now, inventory, service_states, host_state_map, gone,
                   dbOps, beats>>
    /\ HmFrame

MrNext ==
    \/ \E records \in MrRecords : MrQuery("w1", records)
    \/ \E w \in Workers : Refresh(w)
    \/ \E w \in Workers : MrReturn(w)

SpecMetric == MrInit /\ [][MrNext]_vars

\* The records with a service whose metrics list has a malformed entry.
MrMalformed(records) ==
    {i \in 1..Len(records) :
        IsSet(records[i].service) /\ MetricsRaise(records[i])}

\* C26: a malformed metric does not stop scheduling of the host: when a
\* record's metrics list has an entry missing name, value, timestamp or
\* source, get_all_host_states still completes, that host and all other hosts
\* of the query are in the result, and dead nodes are still evicted.
C26_MalformedMetricTolerated ==
    [][\A w \in Workers :
          (/\ wk[w].pc = "queried"
           /\ wk'[w].pc # "queried"
           /\ MrMalformed(wk[w].compute_nodes) # {}) =>
              /\ wk'[w].pc = "hosts"
              /\ DOMAIN wk'[w].hosts = ServicedKeys(wk[w].compute_nodes)
              /\ DOMAIN host_state_map' = ServicedKeys(wk[w].compute_nodes)]_vars

(***************************************************************************)
(* PciPassthrough filter (filters/pci_passthrough_filter.py) on the host   *)
(* states a refresh produces.  pci_stats of a HostState is None when the   *)
(* record had no pci_stats, else the number of free devices; pci_requests  *)
(* of a request is absent, or the number of devices asked for (0 for an    *)
(* empty list).                                                            *)
(***************************************************************************)
\* PciDeviceStats.support_requests
support_requests(stats, requested) == stats >= requested

\* PciPassthroughFilter.host_passes; calling support_requests on a null
\* pci_stats raises AttributeError.
PciPassthroughFilterPasses(h, props) ==
    IF ~IsSet(props.pci_requests) \/ Val(props.pci_requests) = 0
    THEN [raised |-> FALSE, passes |-> TRUE]
    ELSE IF ~IsSet(h.pci_stats)
    THEN [raised |-> TRUE, passes |-> FALSE]
    ELSE [raised |-> FALSE,
          passes |-> support_requests(Val(h.pci_stats), Val(props.pci_requests))]

\* The profiles whose metrics are well formed: the records a refresh applies.
PfProfiles == {p \in Profiles : ~MetricsRaise(p)}

\* The host states of a refresh: a new HostState after one record, or after
\* two records of increasing updated_at.
PfHostsOf(service) ==
    LET fresh == NewHostState("host1", "node1", None, Some(service))
        once == {update_from_compute_node(
                     fresh, Compute(1, Some(service), Some("node1"), Some(1), p)) :
                 p \in PfProfiles}
    IN  once \cup
        {update_from_compute_node(
             h, Compute(1, Some(service), Some("node1"), Some(2), p)) :
         h \in once, p \in PfProfiles}

PfHosts == UNION {PfHostsOf(ServiceOf("host1", disabled)) : disabled \in BOOLEAN}

PfRequests == {None, Some(0), Some(1), Some(2), Some(3)}

PfInit ==
    /\ now = 1
    /\ hs = NewHostState("host1", "node1", None, Some(HsService))
    /\ hsPrev = hs
    /\ hsLast = [op |-> "init", raised |-> FALSE]
    /\ hsSteps = 0
    /\ fh = FhIdle
    /\ inventory = EmptyDict
    /\ service_states = EmptyDict
    /\ host_state_map = EmptyDict
    /\ wk = [w \in Workers |-> WkIdle]
    /\ gone = {}
    /\ dbOps = 0
    /\ beats = 0
    /\ hb = <<>>
    /\ cs = CsIdle
    /\ tc = TcIdle
    /\ \E h \in PfHosts, pci_requests \in PfRequests :
          fc = [pc |-> "pci_call", host |-> h,
                props |-> [pci_requests |-> pci_requests]]

PfCall ==
    /\ fc.pc = "pci_call"
    /\ fc' = [pc |-> "pci_done", host |-> fc.host, props |-> fc.props,
              out |-> PciPassthroughFilterPasses(fc.host, fc.props)]
    /\ UNCHANGED <<now, hsVars, fh, hmVars, hb, cs, tc>>

PfNext == PfCall

SpecPci == PfInit /\ [][PfNext]_vars

\* C27: the PciPassthrough filter yields a boolean verdict for every host
\* state a refresh produces: it passes when the request has no pci_requests,
\* and for a request with pci_requests on a host whose pci_stats is null it
\* returns a verdict without raising.
C27_PciVerdict ==
    fc.pc = "pci_done" =>
        /\ ~fc.out.raised
        /\ (~IsSet(fc.props.pci_requests) => fc.out.passes)

(***************************************************************************)
(* ReadOnlyDict (host_manager.py lines 67-96), the wrapper of the          *)
(* capabilities and service snapshots of a HostState.  The operations are  *)
(* those of UserDict.IterableUserDict with the overrides of the class; the *)
(* argument of update is nothing, a dict, or a list of pairs.              *)
(***************************************************************************)
RoOps == {"setitem", "delitem", "clear", "pop", "popitem", "setdefault",
          "update"}

\* One operation on a ReadOnlyDict holding `data`: whether it raises
\* TypeError and the contents afterwards.  setdefault is UserDict's: it
\* assigns through __setitem__ only when the key is missing.
ReadOnlyDictOp(data, op, key, source) ==
    IF op \in {"setitem", "delitem", "clear", "pop", "popitem"}
    THEN [raised |-> TRUE, data |-> data]
    ELSE IF op = "setdefault"
    THEN [raised |-> key \notin DOMAIN data, data |-> data]
    ELSE IF source.kind = "none" THEN [raised |-> FALSE, data |-> data]
    ELSE IF source.kind = "dict" THEN [raised |-> FALSE, data |-> source.data]
    ELSE [raised |-> TRUE, data |-> data]

RoFields == {"capabilities", "service"}

RoSnapshots(field) ==
    IF field = "capabilities"
    THEN {EmptyDict, [k \in {"vcpus"} |-> 4], [k \in {"vcpus"} |-> 8]}
    ELSE {ServiceOf("host1", FALSE), ServiceOf("host1", TRUE)}

RoKeys(field) ==
    IF field = "capabilities" THEN {"vcpus", "ram"} ELSE {"host", "zone"}

RoSources(field) ==
    {[kind |-> "none"], [kind |-> "pairs"]}
        \cup {[kind |-> "dict", data |-> d] : d \in RoSnapshots(field)}

\* update_capabilities installs new snapshots.
RoUpdateCapabilities(capabilities, service) ==
    /\ hsSteps < MaxHsSteps
    /\ hsPrev' = hs
    /\ hs' = update_capabilities(hs, capabilities, service)
    /\ hsLast' = [op |-> "update_capabilities", raised |-> FALSE]
    /\ hsSteps' = hsSteps + 1
    /\ UNCHANGED now
    /\ HsFrame

\* A filter or weigher applies a dictionary operation to one of the
\* snapshots of the HostState.
RoDictOp(field, op, key, source) ==
    /\ hsSteps < MaxHsSteps
    /\ hsPrev' = hs
    /\ LET out == ReadOnlyDictOp(IF field = "capabilities" THEN hs.capabilities
                                 ELSE hs.service, op, key, source)
       IN  /\ hs' = IF field = "capabilities"
                    THEN [hs EXCEPT !.capabilities = out.data]
                    ELSE [hs EXCEPT !.service = out.data]
           /\ hsLast' = [op |-> op, field |-> field, key |-> key,
                         source |-> source, raised |-> out.raised]
    /\ hsSteps' = hsSteps + 1
    /\ UNCHANGED now
    /\ HsFrame

RoNext ==
    \/ \E capabilities \in {None} \cup {Some(d) : d \in RoSnapshots("capabilities")},
          service \in {None} \cup {Some(d) : d \in RoSnapshots("service")} :
          RoUpdateCapabilities(capabilities, service)
    \/ \E field \in RoFields, op \in RoOps :
          \E key \in RoKeys(field), source \in RoSources(field) :
              RoDictOp(field, op, key, source)

SpecReadOnly == HsInit /\ [][RoNext]_vars

\* C28: the capability and service snapshots of a HostState are read-only
\* after construction: no dictionary operation applied to them (item
\* assignment, deletion, clear, pop, popitem, setdefault, update) changes
\* their contents; they change only when update_capabilities installs a new
\* snapshot.
C28_SnapshotsReadOnly ==
    hsLast.op \in RoOps =>
        (hs.capabilities = hsPrev.capabilities /\ hs.service = hsPrev.service)

\* The entries a record's stats give under one prefix.
StatsUnder(compute, prefix) ==
    LET stats == _statmap(compute.stats)
        names == {k[2] : k \in {x \in DOMAIN stats : x[1] = prefix}}
    IN  [name \in names |-> stats[<<prefix, name>>]]

\* C29: after update_from_compute_node applies a record (freshness guard not
\* tripped), num_instances_by_project, vm_states, task_states and
\* num_instances_by_os_type hold exactly the entries of the record's stats
\* keys with prefixes num_proj_, num_vm_, num_task_ and num_os_type_, none
\* left over from an earlier record, and num_instances and num_io_ops equal
\* the record's num_instances and io_workload stats, 0 when absent.
C29_StatsExact ==
    (/\ hsLast.op = "update_from_compute_node"
     /\ ~hsLast.raised
     /\ ~FreshnessGuard(hsPrev, hsLast.compute)) =>
        /\ hs.num_instances_by_project = StatsUnder(hsLast.compute, "num_proj_")
        /\ hs.vm_states = StatsUnder(hsLast.compute, "num_vm_")
        /\ hs.task_states = StatsUnder(hsLast.compute, "num_task_")
        /\ hs.num_instances_by_os_type =
               StatsUnder(hsLast.compute, "num_os_type_")
        /\ hs.num_instances =
               DictGet(_statmap(hsLast.compute.stats), <<"num_instances", "">>, 0)
        /\ hs.num_io_ops =
               DictGet(_statmap(hsLast.compute.stats), <<"io_workload", "">>, 0)

\* C30: when force_hosts and force_nodes are both non-empty, the states that
\* survive pre-processing are exactly the input states that are not ignored,
\* whose hostname is in force_hosts and whose nodename is in force_nodes;
\* ignore_hosts is applied before the force lists, so a host named in both
\* ignore_hosts and force_hosts is dropped.
C30_BothForced ==
    (/\ FhReturned
     /\ fh.props.force_hosts # {}
     /\ fh.props.force_nodes # {}) =>
        /\ fh.out.result =
               {k \in DOMAIN fh.hosts :
                   /\ k[1] \notin fh.props.ignore_hosts
                   /\ k[1] \in fh.props.force_hosts
                   /\ k[2] \in fh.props.force_nodes}
        /\ \A k \in fh.out.result :
               k[1] \notin fh.props.ignore_hosts \cap fh.props.force_hosts
        /\ fh.out.result # {} => ~fh.out.chain_ran
        /\ fh.props.ignore_hosts # {} => Head(fh.out.audit) = "ignore_hosts"

\* Both hosts are forced on node1 and host1 is also ignored; the input holds
\* both nodes of host1 and node1 of host2: only (host2, node1) is returned.
C30_Witness ==
    /\ FhReturned
    /\ fh.props.force_hosts = {"host1", "host2"}
    /\ fh.props.force_nodes = {"node1"}
    /\ fh.props.ignore_hosts = {"host1"}
    /\ DOMAIN fh.hosts = FhKeys
    /\ fh.out.result = {<<"host2", "node1">>}

\* An update_from_compute_node call that got past the freshness guard.
HsApplied ==
    /\ hsLast.op = "update_from_compute_node"
    /\ ~FreshnessGuard(hsPrev, hsLast.compute)

\* C31: after a refresh, free_disk_mb of an updated HostState is the record's
\* disk_available_least * 1024 whenever disk_available_least is non-null
\* (0 and negative values included), and free_disk_gb * 1024 only when
\* disk_available_least is null or missing.
C31_LeastWins ==
    HsApplied =>
        IF hsLast.compute.disk_available_least # None
        THEN hs.free_disk_mb = Val(hsLast.compute.disk_available_least) * 1024
        ELSE hs.free_disk_mb = hsLast.compute.free_disk_gb * 1024

\* A record with disk_available_least = 0 and 9 GB of free_disk_gb was applied
\* to a HostState that held a negative free_disk_mb from a record with a
\* negative disk_available_least: free_disk_mb is 0.
C31_Witness ==
    /\ HsApplied
    /\ hsLast.compute.disk_available_least = Some(0)
    /\ hsLast.compute.free_disk_gb = 9
    /\ hsPrev.free_disk_mb = -1024
    /\ hs.free_disk_mb = 0

HsConsumed == hsLast.op = "consume_from_instance"

\* The count a dictionary holds under a key, 0 when the key is absent.
CountAt(d, key) == IF key \in DOMAIN d THEN d[key] ELSE 0

\* One more under `key`, every other entry as before.
CountedOnce(before, after, key) ==
    /\ DOMAIN after = (DOMAIN before) \cup {key}
    /\ after[key] = CountAt(before, key) + 1
    /\ \A k \in DOMAIN before : k # key => after[k] = before[k]

\* C32: consume_from_instance adds exactly 1 to num_io_ops when the
\* instance's vm_state ("building" when absent) is "building" or its
\* task_state is one of resize_migrating, rebuilding, resize_prep,
\* image_snapshot, image_backup, and leaves num_io_ops alone otherwise; in
\* every case num_instances and the counts of the instance's project,
\* vm_state, task_state and os_type each grow by exactly 1.
C32_ConsumeCounts ==
    HsConsumed =>
        LET instance == hsLast.instance
            vm_state == IF instance.vm_state = None THEN "building"
                        ELSE Val(instance.vm_state)
            io == \/ vm_state = "building"
                  \/ instance.task_state \in
                         {Some("resize_migrating"), Some("rebuilding"),
                          Some("resize_prep"), Some("image_snapshot"),
                          Some("image_backup")}
        IN  /\ hs.num_io_ops = hsPrev.num_io_ops + (IF io THEN 1 ELSE 0)
            /\ hs.num_instances = hsPrev.num_instances + 1
            /\ CountedOnce(hsPrev.num_instances_by_project,
                           hs.num_instances_by_project,
                           KeyOfOpt(instance.project_id))
            /\ CountedOnce(hsPrev.vm_states, hs.vm_states, vm_state)
            /\ CountedOnce(hsPrev.task_states, hs.task_states,
                           KeyOfOpt(instance.task_state))
            /\ CountedOnce(hsPrev.num_instances_by_os_type,
                           hs.num_instances_by_os_type,
                           KeyOfOpt(instance.os_type))

\* An active instance that is rebuilding was placed on a host that already
\* had I/O work and an entry for rebuilding instances: one more of each.
C32_Witness ==
    /\ HsConsumed
    /\ hsLast.instance.vm_state = Some("active")
    /\ hsLast.instance.task_state = Some("rebuilding")
    /\ hsPrev.num_io_ops > 0
    /\ "rebuilding" \in DOMAIN hsPrev.task_states
    /\ hs.num_io_ops = hsPrev.num_io_ops + 1
    /\ hs.task_states["rebuilding"] = hsPrev.task_states["rebuilding"] + 1

(***************************************************************************)
(* ImageProperties filter (filters/image_props_filter.py).  The image      *)
(* properties are [architecture, hypervisor_type, vm_mode,                 *)
(* hypervisor_version_requires]: the first three None or a name, the last  *)
(* None or the version v of a predicate ">= v".  A host advertises         *)
(* supported_instances, None or a list of (arch, hypervisor_type, vm_mode) *)
(* triples, and a hypervisor_version, None or a number.                    *)
(***************************************************************************)
\* _compare_props: every requested property is somewhere in the triple.
_compare_props(props, other_props) ==
    \A i \in 1..Len(props) :
        IsSet(props[i]) =>
            \E j \in 1..Len(other_props) : other_props[j] = Val(props[i])

\* _compare_product_version with the predicate ">= version_required".
_compare_product_version(hyper_version, image_props) ==
    IF ~(IsSet(hyper_version) /\ IsSet(image_props.hypervisor_version_requires))
    THEN TRUE
    ELSE Val(hyper_version) >= Val(image_props.hypervisor_version_requires)

\* ImagePropertiesFilter._instance_supported
_instance_supported(h, image_props, hypervisor_version) ==
    LET checked_img_props == <<image_props.architecture,
                               image_props.hypervisor_type,
                               image_props.vm_mode>>
        supp_instances == IF IsSet(h.supported_instances)
                          THEN Val(h.supported_instances) ELSE <<>>
    IN  IF \A i \in 1..3 : ~IsSet(checked_img_props[i]) THEN TRUE
        ELSE IF supp_instances = <<>> THEN FALSE
        ELSE \E n \in 1..Len(supp_instances) :
                 /\ _compare_props(checked_img_props, supp_instances[n])
                 /\ _compare_product_version(hypervisor_version, image_props)

\* ImagePropertiesFilter.host_passes
ImagePropertiesFilterPasses(h, image_props) ==
    _instance_supported(h, image_props, h.hypervisor_version)

IpSupported ==
    {None, Some(<<>>),
     Some(<< <<"x86_64", "xen", "hvm">> >>),
     Some(<< <<"x86_64", "kvm", "hvm">>, <<"i686", "xen", "xen">> >>)}

IpHosts ==
    { [FreshHostState(<<"host1", "node1">>, FALSE, 0) EXCEPT
          !.supported_instances = supported, !.hypervisor_version = version] :
      supported \in IpSupported, version \in {None, Some(1), Some(3)} }

IpImages ==
    [architecture : {None, Some("x86_64")},
     hypervisor_type : {None, Some("xen"), Some("kvm")},
     vm_mode : {None, Some("xen"), Some("hvm")},
     hypervisor_version_requires : {None, Some(2)}]

IpInit ==
    /\ now = 1
    /\ hs = NewHostState("host1", "node1", None, Some(HsService))
    /\ hsPrev = hs
    /\ hsLast = [op |-> "init", raised |-> FALSE]
    /\ hsSteps = 0
    /\ fh = FhIdle
    /\ inventory = EmptyDict
    /\ service_states = EmptyDict
    /\ host_state_map = EmptyDict
    /\ wk = [w \in Workers |-> WkIdle]
    /\ gone = {}
    /\ dbOps = 0
    /\ beats = 0
    /\ hb = <<>>
    /\ cs = CsIdle
    /\ tc = TcIdle
    /\ \E h \in IpHosts, image \in IpImages :
          fc = [pc |-> "image_call", host |-> h, image |-> image]

IpCall ==
    /\ fc.pc = "image_call"
    /\ fc' = [pc |-> "image_done", host |-> fc.host, image |-> fc.image,
              passes |-> ImagePropertiesFilterPasses(fc.host, fc.image)]
    /\ UNCHANGED <<now, hsVars, fh, hmVars, hb, cs, tc>>

IpNext == IpCall

SpecImage == IpInit /\ [][IpNext]_vars

\* A supported triple equals the request in every position the request fills.
IpTripleMatches(triple, image) ==
    /\ IsSet(image.architecture) => triple[1] = Val(image.architecture)
    /\ IsSet(image.hypervisor_type) => triple[2] = Val(image.hypervisor_type)
    /\ IsSet(image.vm_mode) => triple[3] = Val(image.vm_mode)

\* C33: with architecture, hypervisor_type and vm_mode all empty the host
\* passes; otherwise it passes iff some supported triple equals the request
\* in each position whose requested property is non-empty and the
\* hypervisor_version_requires predicate, if any, is satisfied; a host that
\* advertises no supported instances fails.
C33_ImageProperties ==
    fc.pc = "image_done" =>
        LET image == fc.image
            supported == IF IsSet(fc.host.supported_instances)
                         THEN Val(fc.host.supported_instances) ELSE <<>>
        IN  fc.passes <=>
                IF image.architecture = None /\ image.hypervisor_type = None
                   /\ image.vm_mode = None
                THEN TRUE
                ELSE /\ \E n \in 1..Len(supported) :
                            IpTripleMatches(supported[n], image)
                     /\ _compare_product_version(fc.host.hypervisor_version,
                                                 image)

(***************************************************************************)
(* AggregateInstanceExtraSpecs filter                                      *)
(* (filters/aggregate_instance_extra_specs.py).  An extra_specs key is the *)
(* sequence of its parts between colons, <<"gpu">> or                      *)
(* <<"aggregate_instance_extra_specs", "gpu">>; a requirement is           *)
(* [op, operand] with op "" (no operator: equality with the one operand)   *)
(* or "<or>" (any of the operands).  The aggregate metadata of the host    *)
(* maps a key to the set of values its aggregates give.                    *)
(***************************************************************************)
_SCOPE == "aggregate_instance_extra_specs"

\* extra_specs_ops.match
match(value, req) == value \in req.operand

\* key.split(':', 1): the scope, if any, and the rest of the key.
SplitOnce(key) == IF Len(key) > 1 THEN <<<<key[1]>>, Tail(key)>> ELSE <<key>>

\* A bug that reads the keys of every scope.
AggregateSpecsMutAllScopes(h, props, env) ==
    IF ~IsSet(Val(props.instance_type).extra_specs) THEN TRUE
    ELSE LET extra_specs == Val(Val(props.instance_type).extra_specs)
         IN  \A key \in DOMAIN extra_specs :
                 LET scope == SplitOnce(key)
                     name == scope[Len(scope)]
                 IN  /\ name \in DOMAIN env.aggregate_metadata
                     /\ \E aggregate_val \in env.aggregate_metadata[name] :
                            match(aggregate_val, extra_specs[key])

\* AggregateInstanceExtraSpecsFilter.host_passes
AggregateInstanceExtraSpecsPasses(h, props, env) ==
    IF ~IsSet(Val(props.instance_type).extra_specs) THEN TRUE
    ELSE LET extra_specs == Val(Val(props.instance_type).extra_specs)
         IN  \A key \in DOMAIN extra_specs :
                 LET scope == SplitOnce(key)
                     name == scope[Len(scope)]
                 IN  IF Len(scope) > 1 /\ scope[1] # <<_SCOPE>> THEN TRUE
                     ELSE /\ name \in DOMAIN env.aggregate_metadata
                          /\ env.aggregate_metadata[name] # {}
                          /\ \E aggregate_val \in env.aggregate_metadata[name] :
                                 match(aggregate_val, extra_specs[key])

AsKeys == {<<"gpu">>, <<_SCOPE, "gpu">>, <<"trust", "gpu">>, <<_SCOPE, "ssd">>,
           <<"trust", "nic">>}

AsReqs == {[op |-> "", operand |-> {"nv"}],
           [op |-> "<or>", operand |-> {"nv", "amd"}]}

AsExtraSpecs ==
    {None} \cup {Some(d) : d \in UNION {[keys -> AsReqs] : keys \in SUBSET AsKeys}}

AsMetadata ==
    UNION {[keys -> {{}, {"nv"}, {"amd", "intel"}}] :
           keys \in SUBSET {<<"gpu">>, <<"ssd">>}}

AsInit ==
    /\ now = 1
    /\ hs = NewHostState("host1", "node1", None, Some(HsService))
    /\ hsPrev = hs
    /\ hsLast = [op |-> "init", raised |-> FALSE]
    /\ hsSteps = 0
    /\ fh = FhIdle
    /\ inventory = EmptyDict
    /\ service_states = EmptyDict
    /\ host_state_map = EmptyDict
    /\ wk = [w \in Workers |-> WkIdle]
    /\ gone = {}
    /\ dbOps = 0
    /\ beats = 0
    /\ hb = <<>>
    /\ cs = CsIdle
    /\ tc = TcIdle
    /\ \E extra_specs \in AsExtraSpecs, metadata \in AsMetadata :
          fc = [pc |-> "specs_call",
                host |-> FreshHostState(<<"host1", "node1">>, FALSE, 0),
                props |-> [instance_type |-> Some([extra_specs |-> extra_specs])],
                env |-> [aggregate_metadata |-> metadata]]

AsCall ==
    /\ fc.pc = "specs_call"
    /\ fc' = [pc |-> "specs_done", host |-> fc.host, props |-> fc.props,
              env |-> fc.env,
              passes |-> AggregateInstanceExtraSpecsPasses(fc.host, fc.props,
                                                           fc.env)]
    /\ UNCHANGED <<now, hsVars, fh, hmVars, hb, cs, tc>>

AsNext == AsCall

SpecAggSpecs == AsInit /\ [][AsNext]_vars

\* The keys of the request the filter reads, and the metadata key of each.
AsConsumed ==
    {key \in DOMAIN Val(Val(fc.props.instance_type).extra_specs) :
        Len(key) = 1 \/ key[1] = _SCOPE}

AsUnscoped(key) == IF Len(key) = 1 THEN key ELSE Tail(key)

\* C34: host_passes returns true iff, for every extra_specs key that is
\* unscoped or in scope aggregate_instance_extra_specs, the host's aggregate
\* metadata has at least one value under the unscoped key that matches the
\* requirement; keys of other scopes never affect the verdict, a consumed key
\* missing from the metadata fails the host, and an instance type without
\* extra_specs passes.
C34_AggregateExtraSpecs ==
    fc.pc = "specs_done" =>
        IF Val(fc.props.instance_type).extra_specs = None THEN fc.passes
        ELSE LET extra_specs == Val(Val(fc.props.instance_type).extra_specs)
                 metadata == fc.env.aggregate_metadata
             IN  /\ fc.passes <=>
                        \A key \in AsConsumed :
                            /\ AsUnscoped(key) \in DOMAIN metadata
                            /\ \E v \in metadata[AsUnscoped(key)] :
                                   match(v, extra_specs[key])
                 /\ (\E key \in AsConsumed : AsUnscoped(key) \notin DOMAIN metadata)
                        => ~fc.passes

\* The request asks for gpu "nv or amd" in the filter's scope and has keys of
\* another scope, one of them (nic) unknown to the aggregates; the host's
\* aggregates give gpu the values amd and intel: the host passes.
C34_Witness ==
    /\ fc.pc = "specs_done"
    /\ Val(fc.props.instance_type).extra_specs # None
    /\ DOMAIN Val(Val(fc.props.instance_type).extra_specs) =
           {<<_SCOPE, "gpu">>, <<"trust", "gpu">>, <<"trust", "nic">>}
    /\ Val(Val(fc.props.instance_type).extra_specs)[<<_SCOPE, "gpu">>].op = "<or>"
    /\ Val(Val(fc.props.instance_type).extra_specs)[<<"trust", "gpu">>].op = ""
    /\ fc.env.aggregate_metadata = [k \in {<<"gpu">>} |-> {"amd", "intel"}]
    /\ fc.passes

(***************************************************************************)
(* Memcached service group driver (servicegroup/drivers/mc.py).  The       *)
(* memcache holds, per key, the value written and the time at which the    *)
(* entry expires; a service object carries model_disconnected, None while  *)
(* the attribute has never been set.  The services report on their timers  *)
(* until they stop; the write of a report may fail (the memcache client    *)
(* raises).  Reports are drawn while the clock can still reach the expiry  *)
(* of the key they write.                                                  *)
(***************************************************************************)
service_down_time == 2
MaxMcTime == 4

McServices ==
    {[topic |-> "compute", host |-> "host1"],
     [topic |-> "compute", host |-> "host2"],
     [topic |-> "scheduler", host |-> "host1"]}

\* "%(topic)s:%(host)s" % service_ref
McKey(service_ref) == service_ref.topic \o ":" \o service_ref.host

\* memorycache: get returns None for a missing key and for an entry whose
\* time has come; set with time=n keeps the entry for n seconds.
McGet(mc, key, t) ==
    IF key \in DOMAIN mc /\ t < mc[key].expires THEN Some(mc[key].value) ELSE None

McSet(mc, key, value, time, t) ==
    DictSet(mc, key, [value |-> value, expires |-> t + time])

\* A bug that looks for the host alone.
IsUpMutHostKey(mc, service_ref, t) == McGet(mc, service_ref.host, t) # None

\* MemcachedDriver.is_up
is_up(mc, service_ref, t) == McGet(mc, McKey(service_ref), t) # None

\* MemcachedDriver.get_all: the hosts of the services of the group that are
\* up.
get_all(mc, group_id, t) ==
    {service.host : service \in {s \in McServices :
                                    s.topic = group_id /\ is_up(mc, s, t)}}

\* getattr(service, 'model_disconnected', False)
ModelDisconnected(flag) == IF IsSet(flag) THEN Val(flag) ELSE FALSE

\* A bug that leaves the flag set after a successful write.
ReportStateMutNoRecover(mc, flag, service_ref, ok, t) ==
    IF ok
    THEN [raised |-> FALSE, flag |-> flag,
          mc |-> McSet(mc, McKey(service_ref), t, service_down_time, t)]
    ELSE [raised |-> FALSE, mc |-> mc,
          flag |-> IF ~ModelDisconnected(flag) THEN Some(TRUE) ELSE flag]

\* MemcachedDriver._report_state; ok tells whether mc.set succeeds.
_report_state(mc, flag, service_ref, ok, t) ==
    IF ok
    THEN [raised |-> FALSE,
          mc |-> McSet(mc, McKey(service_ref), t, service_down_time, t),
          flag |-> IF ModelDisconnected(flag) THEN Some(FALSE) ELSE flag]
    ELSE [raised |-> FALSE, mc |-> mc,
          flag |-> IF ~ModelDisconnected(flag) THEN Some(TRUE) ELSE flag]

McInit ==
    /\ now = 1
    /\ hs = NewHostState("host1", "node1", None, Some(HsService))
    /\ hsPrev = hs
    /\ hsLast = [op |-> "init", raised |-> FALSE]
    /\ hsSteps = 0
    /\ fh = FhIdle
    /\ inventory = EmptyDict
    /\ service_states = EmptyDict
    /\ host_state_map = EmptyDict
    /\ wk = [w \in Workers |-> WkIdle]
    /\ gone = {}
    /\ dbOps = 0
    /\ beats = 0
    /\ cs = CsIdle
    /\ fc = FcIdle
    /\ tc = TcIdle
    /\ hb = [pc |-> "memcached", mc |-> EmptyDict,
             flags |-> [s \in McServices |-> None],
             reported |-> EmptyDict, stopped |-> {},
             last |-> [op |-> "init"]]

\* The timer of a running service fires.
McReport(service_ref, ok) ==
    /\ hb.pc = "memcached"
    /\ service_ref \notin hb.stopped
    /\ now + service_down_time <= MaxMcTime
    /\ LET out == _report_state(hb.mc, hb.flags[service_ref], service_ref, ok, now)
       IN  hb' = [hb EXCEPT
                    !.mc = out.mc,
                    !.flags[service_ref] = out.flag,
                    !.reported = IF ok THEN DictSet(@, service_ref, now) ELSE @,
                    !.last = [op |-> "_report_state", service |-> service_ref,
                              ok |-> ok, raised |-> out.raised,
                              before |-> hb.flags[service_ref]]]
    /\ UNCHANGED <<now, hsVars, fh, hmVars, cs, fc, tc>>

\* A service stops: its timer fires no more.
McStop(service_ref) ==
    /\ hb.pc = "memcached"
    /\ service_ref \notin hb.stopped
    /\ hb' = [hb EXCEPT !.stopped = @ \cup {service_ref},
                        !.last = [op |-> "stop", service |-> service_ref]]
    /\ UNCHANGED <<now, hsVars, fh, hmVars, cs, fc, tc>>

\* The scheduler asks for the members of a group.
McGetAll(group_id) ==
    /\ hb.pc = "memcached"
    /\ hb' = [hb EXCEPT !.last = [op |-> "get_all", group |-> group_id,
                                  at |-> now,
                                  result |-> get_all(hb.mc, group_id, now)]]
    /\ UNCHANGED <<now, hsVars, fh, hmVars, cs, fc, tc>>

McTick ==
    /\ hb.pc = "memcached"
    /\ now < MaxMcTime
    /\ now' = now + 1
    /\ UNCHANGED <<hsVars, fh, hmVars, auxVars>>

McNext ==
    \/ \E service_ref \in McServices, ok \in BOOLEAN : McReport(service_ref, ok)
    \/ \E service_ref \in McServices : McStop(service_ref)
    \/ \E group_id \in {"compute", "scheduler"} : McGetAll(group_id)
    \/ McTick

\* Time passes whatever the services do.
SpecMemcached == McInit /\ [][McNext]_vars /\ WF_vars(McTick)

\* The service's last successful report is less than service_down_time old.
McReportedLately(service_ref, t) ==
    /\ service_ref \in DOMAIN hb.reported
    /\ t - hb.reported[service_ref] < service_down_time

\* C35: is_up(service) is true iff the service's last successful report is
\* less than service_down_time old; get_all returns exactly the hosts of the
\* group's services that are up; and a service that stops reporting is
\* eventually reported not up.
C35_MemcachedLiveness ==
    /\ [](\A s \in McServices : is_up(hb.mc, s, now) <=> McReportedLately(s, now))
    /\ [](hb.last.op = "get_all" =>
              hb.last.result =
                  {s.host : s \in {r \in McServices :
                                      r.topic = hb.last.group
                                      /\ McReportedLately(r, hb.last.at)}})
    /\ \A s \in McServices :
           (s \in hb.stopped) ~> ~is_up(hb.mc, s, now)

\* compute on host1 has stopped after a report and is still up; a get_all
\* of its group returned host1 and not host2, whose only report failed.
C35_Witness ==
    /\ hb.last.op = "get_all"
    /\ hb.last.group = "compute"
    /\ hb.last.result = {"host1"}
    /\ [topic |-> "compute", host |-> "host1"] \in hb.stopped
    /\ [topic |-> "scheduler", host |-> "host1"] \notin DOMAIN hb.reported
    /\ hb.flags[[topic |-> "compute", host |-> "host2"]] = Some(TRUE)

\* C39: _report_state never propagates an exception, and after every call the
\* service's model_disconnected flag (false when unset) is true iff that
\* call's heartbeat write failed.
C39_ReportStateFlag ==
    hb.pc = "memcached" /\ hb.last.op = "_report_state" =>
        /\ ~hb.last.raised
        /\ ModelDisconnected(hb.flags[hb.last.service]) <=> ~hb.last.ok

\* A successful write has just cleared the flag that a failure had set.
C39_Witness ==
    /\ hb.pc = "memcached"
    /\ hb.last.op = "_report_state"
    /\ hb.last.ok
    /\ hb.last.before = Some(TRUE)
    /\ hb.flags[hb.last.service] = Some(FALSE)

(***************************************************************************)
(* Specification SpecCapab: one cached HostState between the heartbeats of *)
(* its compute service and the refreshes of get_all_host_states, with the  *)
(* consumes of SpecHostState in between.                                   *)
(***************************************************************************)
\* get_all_host_states (lines 460-480) for one record of the cached
\* HostState's key, whose service is enabled or disabled.
CbRefresh(compute, disabled) ==
    /\ hsSteps < MaxHsSteps
    /\ LET record == [compute EXCEPT
                         !.service = Some(ServiceOf(hs.host, disabled))]
           state_key == StateKey(record)
           loop == RefreshLoop(DictSet(EmptyDict, <<hs.host, hs.nodename>>, hs),
                               {}, <<record>>, service_states)
       IN  /\ hsPrev' = hs
           /\ hs' = loop.map[state_key]
           /\ hsLast' = [op |-> "get_all_host_states", compute |-> record,
                         raised |-> loop.raised]
    /\ hsSteps' = hsSteps + 1
    /\ UNCHANGED <<now, fh, inventory, service_states, host_state_map, wk,
                   gone, dbOps, beats, auxVars>>

\* The records of an idle and of a loaded node.
CbRecords == {compute \in HsRecords : compute.vcpus_used \in {0, 2}}

CbNext ==
    \/ \E instance \in Instances : HsConsume(instance)
    \/ HsTick
    \/ \E compute \in CbRecords, disabled \in BOOLEAN : CbRefresh(compute, disabled)
    \/ \E service_name \in {"compute", "network"}, capabilities \in Capabilities :
          Heartbeat(service_name, "host1", capabilities)

SpecCapab == HsInit /\ [][CbNext]_vars

\* The step is a refresh of the cached HostState.
CbRefreshes == hsSteps' = hsSteps + 1 /\ hsLast'.op = "get_all_host_states"

\* C36: a refresh replaces the cached HostState's capability snapshot by the
\* current service_states entry of its key (empty when there is none) and
\* its service snapshot by the record's service, whatever the freshness
\* guard does with the record; a heartbeat changes no HostState.
C36_SnapshotsFollowRefresh ==
    [][/\ CbRefreshes =>
            /\ hs'.capabilities =
                   IF <<hs.host, hs.nodename>> \in DOMAIN service_states
                   THEN service_states[<<hs.host, hs.nodename>>]
                   ELSE EmptyDict
            /\ hs'.service = Val(hsLast'.compute.service)
       /\ service_states' # service_states => hs' = hs]_vars

\* A refresh with a record older than the HostState: the counters stayed,
\* the capability snapshot took the heartbeat received since the last
\* refresh and the service snapshot took the record's disabled service.
C36_Witness ==
    /\ hsLast.op = "get_all_host_states"
    /\ IsSet(hsPrev.updated)
    /\ IsSet(hsLast.compute.updated_at)
    /\ Val(hsPrev.updated) > Val(hsLast.compute.updated_at)
    /\ hsLast.compute.vcpus_used # hsPrev.vcpus_used
    /\ hs.vcpus_used = hsPrev.vcpus_used
    /\ hsPrev.capabilities = EmptyDict
    /\ hs.capabilities # EmptyDict
    /\ hs.capabilities = service_states[<<hs.host, hs.nodename>>]
    /\ ~hsPrev.service.disabled
    /\ hs.service.disabled

\* The step is a consume, or an update from a record, of SpecHostState.
HsConsumes == hsSteps' = hsSteps + 1 /\ hsLast'.op = "consume_from_instance"
HsUpdates == hsSteps' = hsSteps + 1 /\ hsLast'.op = "update_from_compute_node"

\* C37: consume_from_instance stamps updated with the current time; after
\* it, update_from_compute_node with a record whose updated_at is earlier
\* than the stamp leaves the counters in place, and a record whose updated_at
\* is not earlier overwrites free_ram_mb, free_disk_mb and vcpus_used with
\* the record's values.
C37_ConsumeStampGuards ==
    [][/\ HsConsumes => hs'.updated = Some(now)
       /\ (/\ HsUpdates
           /\ IsSet(hs.updated)
           /\ IsSet(hsLast'.compute.updated_at)) =>
             LET compute == hsLast'.compute
                 least == compute.disk_available_least
             IN  IF Val(compute.updated_at) < Val(hs.updated)
                 THEN /\ hs'.free_ram_mb = hs.free_ram_mb
                      /\ hs'.free_disk_mb = hs.free_disk_mb
                      /\ hs'.vcpus_used = hs.vcpus_used
                 ELSE /\ hs'.free_ram_mb = compute.free_ram_mb
                      /\ hs'.free_disk_mb =
                             1024 * (IF least # None THEN Val(least)
                                     ELSE compute.free_disk_gb)
                      /\ hs'.vcpus_used = compute.vcpus_used]_vars

\* A record stamped at the very time of the consume has overwritten the
\* consumed counters.
C37_Witness ==
    /\ hsLast.op = "update_from_compute_node"
    /\ hsSteps = 3
    /\ IsSet(hsPrev.updated)
    /\ hsLast.compute.updated_at = hsPrev.updated
    /\ hsPrev.num_instances = 1
    /\ hsPrev.vcpus_used = 1
    /\ hsLast.compute.vcpus_used = 2
    /\ hs.vcpus_used = 2
    /\ hs.free_ram_mb = hsLast.compute.free_ram_mb
    /\ hs.free_ram_mb # hsPrev.free_ram_mb

\* The step is a host_passes call that polls the attestation service.
TcPolls == tc'.calls = tc.calls + 1 /\ tc'.last.out.called

\* C38: the key set of the attestation cache never shrinks, a poll response
\* that names a host not yet cached adds that host, and every poll sends
\* every key accumulated so far.
C38_CacheKeysGrow ==
    [][/\ DOMAIN tc.compute_nodes \subseteq DOMAIN tc'.compute_nodes
       /\ TcPolls => DOMAIN tc.compute_nodes \subseteq tc'.last.out.polled
       /\ (/\ TcPolls
           /\ ~tc'.last.out.raised
           /\ tc'.last.reply.kind = "ok"
           /\ IsSet(tc'.last.reply.hosts)) =>
             DOMAIN Val(tc'.last.reply.hosts) \subseteq DOMAIN tc'.compute_nodes]_vars

\* A poll made for host1 or host2 sent host3, a host that only an earlier
\* response had named.
C38_Witness ==
    /\ tc.pc = "ready"
    /\ tc.last.op = "host_passes"
    /\ tc.last.out.called
    /\ tc.last.host # "host3"
    /\ "host3" \in tc.last.out.polled
    /\ "host3" \in DOMAIN tc.compute_nodes

(***************************************************************************)
(* The client side of the scheduler RPC API (scheduler/rpcapi.py).  A      *)
(* version is the string the code writes; Major and Minor split it.  A     *)
(* message is [method, kind, version, args] with args the dictionary of    *)
(* the keyword arguments; it is handed to the client, which refuses with   *)
(* RPCVersionCapError a version its cap is not compatible with (raised).   *)
(* fc.sent holds the last message that went out.                           *)
(***************************************************************************)
MaxRpcCalls == 2

Major(version) == IF version = "3.0" THEN 3 ELSE 2
Minor(version) ==
    CASE version = "2.6" -> 6
      [] version = "2.7" -> 7
      [] version = "2.9" -> 9
      [] version = "2.10" -> 10
      [] OTHER -> 0

\* A bug that compares the two versions as text.
CanSendVersionMutText(version_cap, version) ==
    LET Rank(v) == CASE v = "2.0" -> 0
                     [] v = "2.10" -> 1
                     [] v = "2.6" -> 2
                     [] v = "2.7" -> 3
                     [] v = "2.9" -> 4
                     [] OTHER -> 5
    IN  \/ version_cap = None
        \/ /\ Major(Val(version_cap)) = Major(version)
           /\ Rank(version) <= Rank(Val(version_cap))

\* self.client.can_send_version: no cap, or the same major version and a
\* minor version not above the cap's.
can_send_version(version_cap, version) ==
    \/ version_cap = None
    \/ /\ Major(Val(version_cap)) = Major(version)
       /\ Minor(version) <= Minor(Val(version_cap))

\* SchedulerAPI.select_destinations
select_destinations(version_cap, request_spec, filter_properties) ==
    [method |-> "select_destinations", kind |-> "call", version |-> "2.7",
     args |-> DictSet(DictSet(EmptyDict, "request_spec", request_spec),
                      "filter_properties", filter_properties),
     raised |-> ~can_send_version(version_cap, "2.7")]

\* SchedulerAPI.run_instance; the five arguments passed on as they are
\* besides request_spec are one value here.
run_instance(version_cap, request_spec, is_first_time, legacy_bdm_in_spec) ==
    LET msg_kwargs ==
            [k \in {"request_spec", "admin_password", "injected_files",
                    "requested_networks", "is_first_time", "filter_properties"} |->
                IF k = "request_spec" THEN request_spec
                ELSE IF k = "is_first_time" THEN is_first_time ELSE 0]
    IN  IF can_send_version(version_cap, "2.9")
        THEN [method |-> "run_instance", kind |-> "cast", version |-> "2.9",
              args |-> DictSet(msg_kwargs, "legacy_bdm_in_spec",
                               legacy_bdm_in_spec),
              raised |-> FALSE]
        ELSE [method |-> "run_instance", kind |-> "cast", version |-> "2.0",
              args |-> msg_kwargs,
              raised |-> ~can_send_version(version_cap, "2.0")]

\* CONF.upgrade_levels.scheduler: unset, a release name or a version.
RpLevels == {None, Some("grizzly"), Some("havana"), Some("2.0"), Some("2.7"),
             Some("2.10"), Some("3.0")}

RpRequestSpecs == {1, 2, 3}

\* SchedulerAPI.__init__: the cap is the level, with VERSION_ALIASES applied.
RpInit ==
    /\ now = 1
    /\ hs = NewHostState("host1", "node1", None, Some(HsService))
    /\ hsPrev = hs
    /\ hsLast = [op |-> "init", raised |-> FALSE]
    /\ hsSteps = 0
    /\ fh = FhIdle
    /\ inventory = EmptyDict
    /\ service_states = EmptyDict
    /\ host_state_map = EmptyDict
    /\ wk = [w \in Workers |-> WkIdle]
    /\ gone = {}
    /\ dbOps = 0
    /\ beats = 0
    /\ hb = <<>>
    /\ cs = CsIdle
    /\ tc = TcIdle
    /\ \E level \in RpLevels :
          fc = [pc |-> "rpc",
                version_cap |-> IF level = Some("grizzly") THEN Some("2.6")
                                ELSE IF level = Some("havana") THEN Some("2.9")
                                ELSE level,
                calls |-> 0, sent |-> <<>>, last |-> [method |-> "none"]]

\* A call of the API: the message goes out unless the client refuses it.
RpSelectDestinations(request_spec) ==
    /\ fc.pc = "rpc"
    /\ fc.calls < MaxRpcCalls
    /\ LET msg == select_destinations(fc.version_cap, request_spec, 0)
       IN  fc' = [fc EXCEPT !.calls = @ + 1,
                            !.sent = IF msg.raised THEN @ ELSE <<msg>>,
                            !.last = msg]
    /\ UNCHANGED <<now, hsVars, fh, hmVars, hb, cs, tc>>

RpRunInstance(request_spec, is_first_time, legacy_bdm_in_spec) ==
    /\ fc.pc = "rpc"
    /\ fc.calls < MaxRpcCalls
    /\ LET msg == run_instance(fc.version_cap, request_spec, is_first_time,
                               legacy_bdm_in_spec)
       IN  fc' = [fc EXCEPT !.calls = @ + 1,
                            !.sent = IF msg.raised THEN @ ELSE <<msg>>,
                            !.last = msg]
    /\ UNCHANGED <<now, hsVars, fh, hmVars, hb, cs, tc>>

RpNext ==
    \/ \E request_spec \in RpRequestSpecs : RpSelectDestinations(request_spec)
    \/ \E request_spec \in RpRequestSpecs, is_first_time \in BOOLEAN,
          legacy_bdm_in_spec \in BOOLEAN :
          RpRunInstance(request_spec, is_first_time, legacy_bdm_in_spec)

SpecRpc == RpInit /\ [][RpNext]_vars

\* The arguments run_instance has at a version: legacy_bdm_in_spec is
\* defined from 2.9 on.
RpRunInstanceArgs(version) ==
    {"request_spec", "admin_password", "injected_files", "requested_networks",
     "is_first_time", "filter_properties"}
        \cup (IF Major(version) = 2 /\ Minor(version) >= 9
              THEN {"legacy_bdm_in_spec"} ELSE {})

\* C40: select_destinations is a blocking call requiring version 2.7;
\* run_instance is a cast, at version 2.9 with legacy_bdm_in_spec iff the
\* client can send 2.9 under its cap and otherwise at version 2.0 without
\* it; a message that goes out carries no argument that the cap's version
\* does not define.
C40_VersionNegotiation ==
    fc.pc = "rpc" =>
        /\ fc.last.method = "select_destinations" =>
               fc.last.kind = "call" /\ fc.last.version = "2.7"
        /\ fc.last.method = "run_instance" =>
               /\ fc.last.kind = "cast"
               /\ LET able == \/ fc.version_cap = None
                                \/ /\ Major(Val(fc.version_cap)) = 2
                                   /\ Minor(Val(fc.version_cap)) >= 9
                  IN  IF able
                      THEN /\ fc.last.version = "2.9"
                           /\ "legacy_bdm_in_spec" \in DOMAIN fc.last.args
                      ELSE /\ fc.last.version = "2.0"
                           /\ "legacy_bdm_in_spec" \notin DOMAIN fc.last.args
        /\ \A i \in 1..Len(fc.sent) :
               (fc.sent[i].method = "run_instance" /\ fc.version_cap # None) =>
                   DOMAIN fc.sent[i].args
                       \subseteq RpRunInstanceArgs(Val(fc.version_cap))

\* Under the grizzly cap a run_instance went out at 2.0 without
\* legacy_bdm_in_spec.
C40_Witness ==
    /\ fc.pc = "rpc"
    /\ fc.version_cap = Some("2.6")
    /\ fc.last.method = "run_instance"
    /\ fc.last.version = "2.0"
    /\ ~fc.last.raised
    /\ fc.sent = <<fc.last>>
    /\ "legacy_bdm_in_spec" \notin DOMAIN fc.last.args

====
